---- MODULE Spec2Model ----
(***************************************************************************)
(* State-machine model of the nexus gateway data plane (oriys/nexus):      *)
(*   - the per-upstream circuit breaker        (package circuitbreaker)    *)
(*   - the sharded sliding-window rate limiter (package ratelimit)         *)
(*   - the legacy route table and proxy        (package proxy)             *)
(*   - the compiled-config store and gateway   (package runtime, config)   *)
(*   - the configuration version history       (package config, admin)     *)
(*   - the middleware chain                     (package middleware)        *)
(*   - the rate-limit middleware                (package middleware)        *)
(*   - path matching and the strip_prefix filter (package proxy, runtime)  *)
(*   - endpoint selection                       (package proxy, runtime)   *)
(*   - readiness across start and shutdown      (package health, main)     *)
(*   - the plugin chain                         (package plugin)            *)
(*   - the admin API over shared configurations (package admin, main)      *)
(* Each subsystem has its own specification (SpecCB, SpecRL, ...); the     *)
(* variables of the other subsystems stay at their initial values.         *)
(***************************************************************************)
EXTENDS Integers, Sequences, FiniteSets, TLC

\* ------------------------------------------------------------------------
\* Bounds of the model
\* ------------------------------------------------------------------------
MaxTime == 6
MaxThreshold == 2
MaxTimeout == 2
MaxCount == 4
MaxRate == 3
MaxCalls == 6
MaxPublishes == 2
MaxHistoryInput == 2
MaxVersions == 11
MaxMiddlewares == 3
MaxPathLen == 4
MaxPrefixLen == 2
MaxEndpoints == 3
MaxSelections == 6
MaxShutdownTimeout == 2
MaxInflight == 1
MaxPlugins == 3
MaxNextCalls == 2
MaxConfigs == 3
MaxAdminRequests == 2

VARIABLES
    now,              \* the monotonic clock read by time.Now / time.Since
    \* --- circuit breaker (CircuitBreaker struct)
    cbState,          \* cb.state
    failureCount,     \* cb.failureCount
    successCount,     \* cb.successCount
    failureThreshold, \* cb.failureThreshold
    successThreshold, \* cb.successThreshold
    cbTimeout,        \* cb.timeout
    lastFailure,      \* cb.lastFailure
    cbEvent,          \* the last operation called on the breaker
    cbAdmit,          \* the value the last Allow returned
    cbCallback,       \* the arguments of the onStateChange call made by the last operation
    \* --- history variables for the breaker (not read by the operations)
    refState,         \* the state the transition table of the design gives
    refFailure,       \* the table's failure_count
    refSuccess,       \* the table's success_count
    streak,           \* RecordFailure calls since the breaker was last reset in Closed
    openedAt,         \* the time of the failure that last opened the breaker (history)
    \* --- rate limiter (ShardedSlidingWindowLimiter struct)
    rlRate,           \* l.rate
    rlWindow,         \* l.window
    shards,           \* l.shards[i].windows: key -> window{count, prevCount, currStart}
    rlKey,            \* the key of the last Allow call
    rlResult,         \* the value the last Allow call returned
    rlCalls,          \* the number of Allow calls made (bounded by MaxCalls)
    \* --- history variable for the limiter (not read by Allow)
    admitLog,         \* key -> instant -> number of Allow calls that returned true,
                      \* kept for the instants of the last window
    freshCalls,       \* key -> number of Allow calls made in the key's first window
    afterDenial,      \* key -> whether its last call was denied, or admitted right after a denial (history)
                      \* (0 before the first call, -1 once a call has come after it)
    \* --- loader (config.Loader)
    loaderCurrent,    \* l.current: the configuration Current() returns, or Nil
    loadErr,          \* the error the last Load returned ("" for nil)
    \* --- legacy route table and upstream manager (proxy.Router, proxy.UpstreamManager)
    routerExact,      \* *r.exact: key -> upstream name
    routerPrefixes,   \* *r.prefixes
    upstreams,        \* m.upstreams: name -> group{targets, counter}
    wPc,              \* where the watcher's callback stands
    wCfg,             \* the configuration the callback was called with
    rPc,              \* where the request in Proxy.ServeHTTP stands
    rReq,             \* the request
    rResult,          \* what Router.Match returned
    rGroup,           \* the group GetTarget read
    rStatus,          \* the status answered (200 when the request was proxied)
    rTarget,          \* the target address chosen
    \* --- history variables for the legacy path
    exactCfg,         \* the configuration *r.exact was built from
    prefixesCfg,      \* the configuration *r.prefixes was built from
    upstreamsCfg,     \* the configuration m.upstreams was built from
    rSeen,            \* the configurations whose tables were current during the match
    rReads,           \* the configurations whose data the request has read
    \* --- compiled configuration (runtime.ConfigStore, runtime.Gateway)
    versionCounter,   \* the package variable versionCounter
    gwStore,          \* store.current: the CompiledConfig, or Nil
    counters,         \* version -> cluster name -> CompiledCluster.counter
    pubPc,            \* where each caller of CompileAndStore stands
    pubCompiled,      \* the CompiledConfig each caller has compiled
    pubErr,           \* the error CompileAndStore returned to each caller
    gPc,              \* where the request in Gateway.ServeHTTP stands
    gReq,             \* the request
    gCfg,             \* cfg, the value of g.store.Load()
    gRoute,           \* what cfg.Router.Match returned
    gPath,            \* r.URL.Path
    gStatus,          \* the status answered (200 when the request was dispatched)
    gTarget,          \* the endpoint chosen
    \* --- history variables for the compiled path
    pubLog,           \* the versions stored, in the order of the stores
    gEntry,           \* the number of stores completed when the request entered
    \* --- configuration versions (config.VersionManager, admin.Server)
    vmVersions,       \* vm.versions: entries {Version, Hash, Config}, oldest first
    vmConfigured,     \* the argument NewVersionManager was called with
    vmMaxHistory,     \* vm.maxHistory
    vmNextVer,        \* vm.nextVer
    adminStatus,      \* the status of the last answer of rollbackConfig (0: none yet)
    \* --- history variable for the versions (not read by the operations)
    vmIssued,         \* the version numbers given to entries so far
    \* --- middleware chain (middleware.Chain)
    mwList,           \* the middlewares given to Chain, in declared order
    mwHandler,        \* the handler given to Chain
    mwRun,            \* which chain is being served: of the list or of its reverse
    mwCur,            \* the handler whose ServeHTTP is about to run, or Returned
    mwStack,          \* the middlewares that called next and wait for it to return
    mwPre,            \* the middlewares whose code before next has run, in order
    mwPost,           \* the middlewares whose code after next has run, in order
    mwStatus,         \* the status written to the response (0: none yet)
    mwBody,           \* what has been written to the response body, in order
    mwEscaped,        \* a panic has left the chain's ServeHTTP
    \* --- history variables for the chain
    mwRecovered,      \* the number of panics recoverWrap has recovered in this run
    mwDeclaredPre,    \* mwPre of the completed run of the declared list
    mwDeclaredPost,   \* mwPost of the completed run of the declared list
    \* --- rate-limit middleware (middleware.RateLimit)
    rmStatus,         \* the status of the last answer (0: no request yet)
    rmRetryAfter,     \* the Retry-After header of the last answer ("" when not set)
    rmNextCalled,     \* whether the last request was passed to next
    rmLog,            \* the statuses answered to each remote address, in order (history)
    \* --- path matching and the strip_prefix filter (proxy.Router, runtime.RouterIndex)
    psPrefix,         \* the prefix of the rule under test (PathPrefix, strip_prefix's argument)
    psPath,           \* the path of the request
    psLegacy,         \* what Router.Match returned (Nil before the call)
    psCompiled,       \* what RouterIndex.Match returned (Nil before the call)
    psStripped,       \* the request path after stripPrefixFilter.Apply (Nil before the call)
    \* --- endpoint selection (proxy.UpstreamManager.GetTarget, runtime.CompiledCluster.NextEndpoint)
    seImpl,           \* which selection serves the requests: GetTarget or NextEndpoint
    seEndpoints,      \* the targets of the group / the Endpoints of the cluster
    seHealthy,        \* the health flag of every endpoint (the upstream_healthy gauge)
    seCounter,        \* the counter of the group / cluster
    sePc,             \* where each request stands: idle, added, done
    seIdx,            \* the value counter.Add(1) - 1 gave the request
    seOk,             \* the second value the selection returned to the request
    seEp,             \* the endpoint the selection returned to the request
    seStatus,         \* the status the client of the request received
    seLog,            \* the endpoints returned, by the counter value of the selection (history)
    \* --- readiness (health.Checker, main)
    rdTLS,            \* whether cfg.Server.TLS is enabled
    rdMain,           \* where main stands
    rdGo,             \* where the goroutine that starts the server stands
    rdListen,         \* the state of each http.Server: new, serving, closed
    rdReady,          \* Checker.ready
    rdStatus,         \* the status of the last answer of /readyz on each server (0: none)
    rdBody,           \* the status field of the body of that answer
    rdTimeout,        \* cfg.Server.ShutdownTimeout, in clock ticks
    rdInflight,       \* the requests each server is serving
    rdElapsed,        \* the time since the context of the shutdown was made
    rdExit,           \* the exit code of the process (Running before it exits)
    \* --- plugin chain (plugin.Chain)
    plPlugins,        \* c.plugins: the plugins as NewChain sorted them
    plPc,             \* where Execute stands: idle, running, done
    plIndex,          \* index of Execute
    plChainErr,       \* chainErr of Execute: the plugin whose error it holds (0: nil)
    plStack,          \* the plugins whose Execute is running, innermost last, with the calls of next each has left
    plCalling,        \* whether run has been called and has not started yet
    plRan,            \* the plugins executed, in order (history)
    plCalledNext,     \* the plugins that have called next (history)
    plStopped,        \* the plugins that returned an error without calling next (history)
    \* --- admin API (admin.Server) over shared *Config objects
    adHeap,           \* the Config objects allocated by Loader.Load; a *Config is an index (0: nil)
    adCurrent,        \* l.current of the loader, a *Config
    adWatcher,        \* where the callback of Loader.Watch stands, and its newCfg
    adHandlers,       \* where each admin request being served stands, with its locals and last answer
    adRequests,       \* the admin requests accepted so far
    adAcked,          \* the route changes answered with success so far (history)
    adRoutesFrom,     \* the *Config whose routes the router was last reloaded with (history)
    adUpstreamsFrom   \* the *Config whose upstreams the upstream manager was last reloaded with (history)

cbVars == <<cbState, failureCount, successCount, failureThreshold, successThreshold,
            cbTimeout, lastFailure, cbEvent, cbAdmit, cbCallback,
            refState, refFailure, refSuccess, streak, openedAt>>

rlVars == <<rlRate, rlWindow, shards, rlKey, rlResult, rlCalls, admitLog, freshCalls,
            afterDenial>>

ldVars == <<loaderCurrent, loadErr>>

watcherVars == <<wPc, wCfg>>
tableVars == <<routerExact, routerPrefixes, upstreams, exactCfg, prefixesCfg, upstreamsCfg>>
requestVars == <<rPc, rReq, rResult, rGroup, rStatus, rTarget, rSeen, rReads>>
pxVars == <<watcherVars, tableVars, requestVars>>

publisherVars == <<pubPc, pubCompiled, pubErr>>
gatewayRequestVars == <<gPc, gReq, gEntry, gCfg, gRoute, gPath, gStatus, gTarget>>
gwVars == <<versionCounter, gwStore, counters, publisherVars, pubLog, gatewayRequestVars>>

vmVars == <<vmVersions, vmConfigured, vmMaxHistory, vmNextVer, adminStatus, vmIssued>>

mwVars == <<mwList, mwHandler, mwRun, mwCur, mwStack, mwPre, mwPost, mwStatus,
            mwBody, mwEscaped, mwRecovered,
            mwDeclaredPre, mwDeclaredPost>>

rmVars == <<rmStatus, rmRetryAfter, rmNextCalled, rmLog>>

psVars == <<psPrefix, psPath, psLegacy, psCompiled, psStripped>>

seVars == <<seImpl, seEndpoints, seHealthy, seCounter, sePc, seIdx, seOk, seEp, seStatus, seLog>>

rdVars == <<rdTLS, rdMain, rdGo, rdListen, rdReady, rdStatus, rdBody,
            rdTimeout, rdInflight, rdElapsed, rdExit>>

plVars == <<plPlugins, plPc, plIndex, plChainErr, plStack, plCalling, plRan, plCalledNext, plStopped>>

adVars == <<adHeap, adCurrent, adWatcher, adHandlers, adRequests, adAcked, adRoutesFrom, adUpstreamsFrom>>

vars == <<now, cbVars, rlVars, ldVars, pxVars, gwVars, vmVars, mwVars, rmVars, psVars, seVars, rdVars, plVars, adVars>>

\* ------------------------------------------------------------------------
\* Clock
\* ------------------------------------------------------------------------
Tick ==
    /\ now < MaxTime
    /\ now' = now + 1

\* ------------------------------------------------------------------------
\* Circuit breaker
\* ------------------------------------------------------------------------
StateClosed == "closed"
StateOpen == "open"
StateHalfOpen == "half_open"
NoCallback == <<>>

\* New: the breaker starts Closed with zero counters and no failure recorded.
CBInit ==
    /\ cbState = StateClosed
    /\ failureCount = 0
    /\ successCount = 0
    /\ failureThreshold \in 1..MaxThreshold
    /\ successThreshold \in 1..MaxThreshold
    /\ cbTimeout \in 1..MaxTimeout
    /\ lastFailure = 0
    /\ cbEvent = "New"
    /\ cbAdmit = TRUE
    /\ cbCallback = NoCallback
    /\ refState = StateClosed
    /\ refFailure = 0
    /\ refSuccess = 0
    /\ streak = 0
    /\ openedAt = 0

\* The breaker of a specification that does not use it.
CBIdle ==
    /\ cbState = StateClosed
    /\ failureCount = 0
    /\ successCount = 0
    /\ failureThreshold = 1
    /\ successThreshold = 1
    /\ cbTimeout = 1
    /\ lastFailure = 0
    /\ cbEvent = "New"
    /\ cbAdmit = TRUE
    /\ cbCallback = NoCallback
    /\ refState = StateClosed
    /\ refFailure = 0
    /\ refSuccess = 0
    /\ streak = 0
    /\ openedAt = 0

\* transition: cb.state = to, then the callback with (from, to).
transition(to) ==
    /\ cbState' = to
    /\ cbCallback' = <<cbState, to>>

NoTransition ==
    /\ cbState' = cbState
    /\ cbCallback' = NoCallback

TimeoutElapsedEarly == now - lastFailure >= cbTimeout - 1

\* time.Since(cb.lastFailure) >= cb.timeout
TimeoutElapsed == now - lastFailure >= cbTimeout

FailureTripsStrict(fc) == fc > failureThreshold

\* cb.failureCount >= cb.failureThreshold
FailureTrips(fc) == fc >= failureThreshold

SuccessClosesStrict(sc) == sc > successThreshold

\* cb.successCount >= cb.successThreshold
SuccessCloses(sc) == sc >= successThreshold

\* The transition table of the design (section 4.3), run beside the code on
\* the same events.  Rows the table does not list leave the table's state as
\* it is.  The table's timeout test reads the code's lastFailure.
RefAllow ==
    IF refState = StateOpen /\ TimeoutElapsed
    THEN /\ refState' = StateHalfOpen
         /\ refSuccess' = 0
         /\ refFailure' = refFailure
    ELSE UNCHANGED <<refState, refSuccess, refFailure>>

RefRecordSuccess ==
    IF refState = StateClosed
    THEN /\ refFailure' = 0
         /\ UNCHANGED <<refState, refSuccess>>
    ELSE IF refState = StateHalfOpen
    THEN IF refSuccess + 1 >= successThreshold
         THEN /\ refState' = StateClosed
              /\ refFailure' = 0
              /\ refSuccess' = 0
         ELSE /\ refSuccess' = refSuccess + 1
              /\ UNCHANGED <<refState, refFailure>>
    ELSE UNCHANGED <<refState, refSuccess, refFailure>>

RefRecordFailure ==
    IF refState \in {StateClosed, StateHalfOpen}
    THEN IF refFailure + 1 >= failureThreshold
         THEN /\ refState' = StateOpen
              /\ UNCHANGED <<refSuccess, refFailure>>
         ELSE /\ refFailure' = refFailure + 1
              /\ UNCHANGED <<refState, refSuccess>>
    ELSE UNCHANGED <<refState, refSuccess, refFailure>>

\* Allow
Allow ==
    /\ cbEvent' = "Allow"
    /\ IF cbState = StateClosed
       THEN /\ cbAdmit' = TRUE
            /\ NoTransition
       ELSE IF cbState = StateOpen
       THEN IF TimeoutElapsed
            THEN /\ transition(StateHalfOpen)
                 /\ cbAdmit' = TRUE
            ELSE /\ cbAdmit' = FALSE
                 /\ NoTransition
       ELSE /\ cbAdmit' = TRUE
            /\ NoTransition
    /\ RefAllow
    /\ UNCHANGED <<failureCount, successCount, failureThreshold, successThreshold,
                   cbTimeout, lastFailure, streak, openedAt, now, rlVars, ldVars, pxVars, gwVars, vmVars, mwVars, rmVars, psVars, seVars, rdVars, plVars, adVars>>

\* RecordSuccess
RecordSuccess ==
    /\ cbEvent' = "RecordSuccess"
    /\ IF cbState = StateHalfOpen
       THEN IF SuccessCloses(successCount + 1)
            THEN /\ failureCount' = 0
                 /\ successCount' = 0
                 /\ transition(StateClosed)
            ELSE /\ successCount' = successCount + 1
                 /\ failureCount' = failureCount
                 /\ NoTransition
       ELSE IF cbState = StateClosed
       THEN /\ failureCount' = 0
            /\ successCount' = successCount
            /\ NoTransition
       ELSE /\ UNCHANGED <<failureCount, successCount>>
            /\ NoTransition
    /\ RefRecordSuccess
    /\ streak' = IF cbState' = StateClosed THEN 0 ELSE -1
    /\ openedAt' = openedAt
    /\ UNCHANGED <<failureThreshold, successThreshold, cbTimeout, lastFailure,
                   cbAdmit, now, rlVars, ldVars, pxVars, gwVars, vmVars, mwVars, rmVars, psVars, seVars, rdVars, plVars, adVars>>

\* RecordFailure
RecordFailure ==
    /\ failureCount < MaxCount
    /\ cbEvent' = "RecordFailure"
    /\ failureCount' = failureCount + 1
    /\ lastFailure' = now
    /\ IF FailureTrips(failureCount + 1)
       THEN transition(StateOpen)
       ELSE NoTransition
    /\ RefRecordFailure
    /\ streak' = IF streak >= 0 THEN streak + 1 ELSE streak
    /\ openedAt' = IF cbState # StateOpen /\ cbState' = StateOpen THEN now ELSE openedAt
    /\ UNCHANGED <<successCount, failureThreshold, successThreshold, cbTimeout,
                   cbAdmit, now, rlVars, ldVars, pxVars, gwVars, vmVars, mwVars, rmVars, psVars, seVars, rdVars, plVars, adVars>>

\* ------------------------------------------------------------------------
\* Rate limiter
\* ------------------------------------------------------------------------
numShards == 256
\* The low byte of offset32 (2166136261 = 0x811C9DC5) and of prime32
\* (16777619 = 0x01000193).  The shard index is fnv32a(key) % 256, and the low
\* byte of h after "h ^= b; h *= prime32" depends only on the low byte of h
\* before it, so the hash is computed on low bytes.
offset32Low == 197
prime32Low == 147

\* Keys are byte strings: "1" and "12".
Keys == { <<49>>, <<49, 50>> }
\* Window lengths in clock ticks.  With a power of two the float64 arithmetic
\* of Allow (elapsed/window, prevCount*weight) is exact, as the integer
\* arithmetic of the model is.
Windows == {2, 4}

RECURSIVE XorBits(_, _, _)
XorBits(a, b, n) ==
    IF n = 0 THEN 0
    ELSE (((a % 2) + (b % 2)) % 2) + 2 * XorBits(a \div 2, b \div 2, n - 1)

RECURSIVE fnvFrom(_, _, _)
fnvFrom(h, s, i) ==
    IF i > Len(s) THEN h
    ELSE fnvFrom((XorBits(h, s[i], 8) * prime32Low) % 256, s, i + 1)

\* fnv32a(s) % 256
fnv32a(s) == fnvFrom(offset32Low, s, 1)

\* fnv32a(key) % numShards for the keys of the model
ShardOf == [k \in Keys |-> fnv32a(k) % numShards]

\* getShard: the index of the shard of key
getShard(key) == ShardOf[key]

\* The shards the keys of the model fall in; the other shards of l.shards
\* hold an empty map for ever and are left out of the state.
ShardIds == {ShardOf[k] : k \in Keys}

EmptyMap == [k \in {} |-> 0]

\* NewLimiter: every shard has an empty map.  Nothing has been admitted.
RLInit ==
    /\ rlRate \in 1..MaxRate
    /\ rlWindow \in Windows
    /\ shards = [i \in ShardIds |-> EmptyMap]
    /\ rlKey = <<>>
    /\ rlResult = TRUE
    /\ rlCalls = 0
    /\ admitLog = [k \in Keys |-> [t \in 0..MaxTime |-> 0]]
    /\ freshCalls = [k \in Keys |-> 0]
    /\ afterDenial = [k \in Keys |-> "none"]

\* The limiter of a specification that does not use it.
RLIdle ==
    /\ rlRate = 1
    /\ rlWindow = 2
    /\ shards = [i \in ShardIds |-> EmptyMap]
    /\ rlKey = <<>>
    /\ rlResult = TRUE
    /\ rlCalls = 0
    /\ admitLog = [k \in Keys |-> [t \in 0..MaxTime |-> 0]]
    /\ freshCalls = [k \in Keys |-> 0]
    /\ afterDenial = [k \in Keys |-> "none"]

\* a roll-over that keeps the last window's count however old it is
RolledKeepsStale(w) ==
    LET elapsed == now - w.currStart
    IN  IF elapsed >= rlWindow
        THEN [count |-> 0, prevCount |-> w.count, currStart |-> now, elapsed |-> 0]
        ELSE [count |-> w.count, prevCount |-> w.prevCount,
              currStart |-> w.currStart, elapsed |-> elapsed]

\* The window of key after the roll-over of lines 53-64, and the elapsed
\* time Allow goes on with.
Rolled(w) ==
    LET elapsed == now - w.currStart
    IN  IF elapsed >= rlWindow
        THEN [count |-> 0,
              prevCount |-> IF elapsed >= 2 * rlWindow THEN 0 ELSE w.count,
              currStart |-> now,
              elapsed |-> 0]
        ELSE [count |-> w.count, prevCount |-> w.prevCount,
              currStart |-> w.currStart, elapsed |-> elapsed]

OverRateLoose(r) ==
    r.prevCount * (rlWindow - r.elapsed) + r.count * rlWindow > rlRate * rlWindow

\* estimate >= float64(l.rate), with
\* estimate = prevCount * (1 - elapsed/window) + count, both sides times window
OverRate(r) ==
    r.prevCount * (rlWindow - r.elapsed) + r.count * rlWindow >= rlRate * rlWindow

Stored(r) == [count |-> r.count, prevCount |-> r.prevCount, currStart |-> r.currStart]

Admit(key) ==
    /\ rlResult' = TRUE
    /\ admitLog' = [admitLog EXCEPT ![key][now] = @ + 1]

Deny ==
    /\ rlResult' = FALSE
    /\ admitLog' = admitLog

\* Allow(key), under the lock of the key's shard: the limiter's part of a step
LimiterAllow(key) ==
    LET i == getShard(key)
        m == shards[i]
    IN  /\ rlCalls < MaxCalls
        /\ rlCalls' = rlCalls + 1
        /\ rlKey' = key
        /\ freshCalls' = [freshCalls EXCEPT ![key] =
                IF key \notin DOMAIN m THEN 1
                ELSE IF @ >= 1 /\ now - m[key].currStart < rlWindow THEN @ + 1
                ELSE -1]
        /\ IF key \notin DOMAIN m
           THEN /\ shards' = [shards EXCEPT ![i] =
                        [k \in DOMAIN m \cup {key} |->
                            IF k = key
                            THEN [count |-> 1, prevCount |-> 0, currStart |-> now]
                            ELSE m[k]]]
                /\ Admit(key)
           ELSE LET r == Rolled(m[key])
                IN  IF OverRate(r)
                    THEN /\ shards' = [shards EXCEPT ![i][key] = Stored(r)]
                         /\ Deny
                    ELSE /\ shards' = [shards EXCEPT ![i][key] =
                                [Stored(r) EXCEPT !.count = @ + 1]]
                         /\ Admit(key)
        /\ afterDenial' = [afterDenial EXCEPT ![key] =
                IF ~rlResult' THEN "denied"
                ELSE IF @ = "denied" THEN "admittedAfterDenial" ELSE "none"]
        /\ UNCHANGED <<now, rlRate, rlWindow>>

\* a call of Allow(key) by itself
RLAllow(key) ==
    /\ LimiterAllow(key)
    /\ UNCHANGED <<cbVars, ldVars, pxVars, gwVars, vmVars, mwVars, rmVars, psVars, seVars, rdVars, plVars, adVars>>

RLAllowAny == \E key \in Keys : RLAllow(key)

\* ------------------------------------------------------------------------
\* Strings.  Hosts and paths are sequences of characters, so that prefix
\* tests, concatenation and comparison are computed; names that are only
\* compared for equality are TLA+ strings.
\* ------------------------------------------------------------------------
\* strings.HasPrefix(s, p)
HasPrefix(s, p) == Len(p) <= Len(s) /\ SubSeq(s, 1, Len(p)) = p

\* strings.TrimPrefix(s, p)
TrimPrefix(s, p) == IF HasPrefix(s, p) THEN SubSeq(s, Len(p) + 1, Len(s)) ELSE s

\* The byte of a character
CharCode(c) ==
    CASE c = "/" -> 47
      [] c = ":" -> 58
      [] c = "8" -> 56
      [] c = "a" -> 97
      [] c = "h" -> 104
      [] c = "x" -> 120
      [] c = "y" -> 121
      [] c = "|" -> 124

RECURSIVE StrLess(_, _)
\* s < t (Go string comparison: bytewise lexicographic)
StrLess(s, t) ==
    IF t = <<>> THEN FALSE
    ELSE IF s = <<>> THEN TRUE
    ELSE IF CharCode(s[1]) # CharCode(t[1]) THEN CharCode(s[1]) < CharCode(t[1])
    ELSE StrLess(Tail(s), Tail(t))

\* strings.LastIndex(s, ":"), 1-based; 0 when there is none
LastColon(s) ==
    LET at == {i \in 1..Len(s) : s[i] = ":"}
    IN  IF at = {} THEN 0 ELSE CHOOSE i \in at : \A j \in at : j <= i

\* Router.Match lines 82-86: the host without its port
StripPort(host) ==
    IF LastColon(host) # 0 THEN SubSeq(host, 1, LastColon(host) - 1) ELSE host

\* ------------------------------------------------------------------------
\* Configurations (config.Config) and the files the loader may find
\* ------------------------------------------------------------------------
PathRoot == <<"/">>
PathX == <<"/", "x">>
PathXY == <<"/", "x", "/", "y">>
PathA == <<"/", "a">>
NoHost == <<>>
HostH == <<"h">>
HostHPort == <<"h", ":", "8">>

Exact(p) == [Path |-> p, Type |-> "exact"]
Prefix(p) == [Path |-> p, Type |-> "prefix"]
ARoute(n, h, ps, u) == [Name |-> n, Host |-> h, Paths |-> ps, Upstream |-> u]
AnUpstream(n, ts) == [Name |-> n, Targets |-> ts]
ACluster(n, eps) == [Name |-> n, Type |-> "http", Endpoints |-> eps, LB |-> ""]
AFilter(t, a) == [Type |-> t, Args |-> a]
ARouteV2(n, ms, p, pp, fs, c) ==
    [Name |-> n, Match |-> [Methods |-> ms, Path |-> p, PathPrefix |-> pp],
     Filters |-> fs, Upstream |-> [Cluster |-> c]]
NoArgs == [k \in {} |-> <<>>]
PrefixArg(p) == [k \in {"prefix"} |-> p]

\* upstreams A, B; /x exactly to A, everything else to B
Cfg1 ==
    [Listen |-> ":8080",
     Upstreams |-> <<AnUpstream("A", <<"a1", "a2">>), AnUpstream("B", <<"b1">>)>>,
     Routes |-> <<ARoute("r1", NoHost, <<Exact(PathX)>>, "A"),
                  ARoute("r2", NoHost, <<Prefix(PathRoot)>>, "B")>>,
     Clusters |-> <<ACluster("A", <<"a1", "a2">>), ACluster("B", <<"b1">>)>>,
     RoutesV2 |-> <<ARouteV2("v1", <<"GET">>, PathX, <<>>, <<>>, "A"),
                    ARouteV2("v2", <<>>, <<>>, PathRoot,
                             <<AFilter("strip_prefix", PrefixArg(PathX))>>, "B")>>]

\* upstream C only; everything to C, with a rule of its own for host h under
\* /x; routes_v2 without a clusters section
Cfg2 ==
    [Listen |-> ":8080",
     Upstreams |-> <<AnUpstream("C", <<"c1">>)>>,
     Routes |-> <<ARoute("r1", NoHost, <<Prefix(PathRoot)>>, "C"),
                  ARoute("r2", HostH, <<Prefix(PathX)>>, "C")>>,
     Clusters |-> <<>>,
     RoutesV2 |-> <<ARouteV2("v", <<>>, <<>>, PathRoot, <<>>, "ghost")>>]

\* a route to an upstream that is not defined
CfgBadUpstream ==
    [Listen |-> ":8080",
     Upstreams |-> <<AnUpstream("A", <<"a1">>)>>,
     Routes |-> <<ARoute("r", NoHost, <<Prefix(PathRoot)>>, "Z")>>,
     Clusters |-> <<>>,
     RoutesV2 |-> <<>>]

\* a routes_v2 entry naming a cluster that is not among the clusters
CfgBadCluster ==
    [Listen |-> ":8080",
     Upstreams |-> <<AnUpstream("A", <<"a1">>)>>,
     Routes |-> <<ARoute("r", NoHost, <<Prefix(PathRoot)>>, "A")>>,
     Clusters |-> <<ACluster("A", <<"a1">>)>>,
     RoutesV2 |-> <<ARouteV2("v", <<>>, <<>>, PathRoot, <<>>, "Z")>>]

\* a filter of a type no factory is registered for
CfgBadFilter ==
    [Listen |-> ":8080",
     Upstreams |-> <<AnUpstream("A", <<"a1">>)>>,
     Routes |-> <<ARoute("r", NoHost, <<Prefix(PathRoot)>>, "A")>>,
     Clusters |-> <<ACluster("A", <<"a1">>)>>,
     RoutesV2 |-> <<ARouteV2("v", <<>>, <<>>, PathRoot,
                             <<AFilter("jwt", NoArgs)>>, "A")>>]

\* two routes with the same exact key: /x for every host in routes, GET /x
\* in routes_v2
CfgDupExact ==
    [Listen |-> ":8080",
     Upstreams |-> <<AnUpstream("A", <<"a1">>), AnUpstream("B", <<"b1">>)>>,
     Routes |-> <<ARoute("r1", NoHost, <<Exact(PathX)>>, "A"),
                  ARoute("r2", NoHost, <<Exact(PathX)>>, "B")>>,
     Clusters |-> <<ACluster("A", <<"a1">>), ACluster("B", <<"b1">>)>>,
     RoutesV2 |-> <<ARouteV2("v1", <<"GET">>, PathX, <<>>, <<>>, "A"),
                    ARouteV2("v2", <<"GET">>, PathX, <<>>, <<>>, "B")>>]

\* What os.ReadFile and yaml.Unmarshal can meet: no file, a file that is not
\* YAML, or a file that parses to a Config.
Unreadable == [kind |-> "unreadable"]
Garbage == [kind |-> "garbage"]
Yaml(cfg) == [kind |-> "yaml", cfg |-> cfg]
Files == {Unreadable, Garbage, Yaml(Cfg1), Yaml(Cfg2), Yaml(CfgDupExact),
          Yaml(CfgBadUpstream), Yaml(CfgBadCluster), Yaml(CfgBadFilter)}

Range(s) == {s[i] : i \in 1..Len(s)}
NoDuplicateNames(s) == \A i, j \in 1..Len(s) : s[i].Name = s[j].Name => i = j

\* Validate, lines 19-37: the upstreams
ValidUpstreams(cfg) ==
    /\ \A u \in Range(cfg.Upstreams) :
          /\ u.Name # ""
          /\ Len(u.Targets) > 0
          /\ \A t \in Range(u.Targets) : t # ""
    /\ NoDuplicateNames(cfg.Upstreams)

\* Validate, lines 39-63: the routes
ValidRoutes(cfg) ==
    \A r \in Range(cfg.Routes) :
        /\ r.Name # ""
        /\ r.Upstream # ""
        /\ r.Upstream \in {u.Name : u \in Range(cfg.Upstreams)}
        /\ Len(r.Paths) > 0
        /\ \A p \in Range(r.Paths) : p.Path # <<>> /\ p.Type \in {"exact", "prefix"}

\* validateClusters
validateClusters(clusters) ==
    /\ \A c \in Range(clusters) :
          /\ c.Name # ""
          /\ c.Type \in {"", "http", "grpc", "dubbo"}
          /\ Len(c.Endpoints) > 0
          /\ \A ep \in Range(c.Endpoints) : ep # ""
    /\ NoDuplicateNames(clusters)

\* args[k] != "" (a missing key reads as "")
HasArg(f, k) == k \in DOMAIN f.Args /\ f.Args[k] # <<>>

\* validateRoutesV2, line 152: the reference is checked when the
\* configuration defines clusters
ClusterKnown(clusterNames, name) == clusterNames # {} => name \in clusterNames

\* validateRoutesV2
validateRoutesV2(routes, clusterNames) ==
    \A r \in Range(routes) :
        /\ r.Name # ""
        /\ ~(r.Match.Path = <<>> /\ r.Match.PathPrefix = <<>>)
        /\ r.Upstream.Cluster # ""
        /\ ClusterKnown(clusterNames, r.Upstream.Cluster)
        /\ \A f \in Range(r.Filters) :
              /\ f.Type # ""
              /\ f.Type = "strip_prefix" => HasArg(f, "prefix")
              /\ f.Type = "header_set" => HasArg(f, "key")

\* Validate: TRUE when it returns nil
Validate(cfg) ==
    /\ cfg.Listen # ""
    /\ ValidUpstreams(cfg)
    /\ ValidRoutes(cfg)
    /\ validateClusters(cfg.Clusters)
    /\ validateRoutesV2(cfg.RoutesV2, {c.Name : c \in Range(cfg.Clusters)})

\* Loader.Load up to the store: the error it returns ("" for nil)
LoadError(file) ==
    IF file.kind = "unreadable" THEN "read config file"
    ELSE IF file.kind = "garbage" THEN "parse config file"
    ELSE IF ~Validate(file.cfg) THEN "validate config"
    ELSE ""

\* ------------------------------------------------------------------------
\* Loader (package config)
\* ------------------------------------------------------------------------
\* a nil *Config / nil snapshot pointer
Nil == [kind |-> "nil"]

LoaderInit == loaderCurrent = Nil /\ loadErr = ""

StoredBeforeValidate(old, file) == IF file.kind = "yaml" THEN file.cfg ELSE old

\* Loader.Load: l.current after the call; it is stored only on the path
\* where no step failed
StoredByLoad(old, file) == IF LoadError(file) = "" THEN file.cfg ELSE old

\* ------------------------------------------------------------------------
\* Legacy route table and proxy (package proxy), as wired by main
\* ------------------------------------------------------------------------
routeKey(host, path) == host \o <<"|">> \o path

RECURSIVE Flatten(_)
\* Reload lines 47-65: the path rules in the order the two loops visit them
Flatten(routes) ==
    IF routes = <<>> THEN <<>>
    ELSE [j \in 1..Len(routes[1].Paths) |->
             [host |-> routes[1].Host, path |-> routes[1].Paths[j].Path,
              type |-> routes[1].Paths[j].Type, upstream |-> routes[1].Upstream]]
         \o Flatten(Tail(routes))

IsExactRule(e) == e.type = "exact"
IsPrefixRule(e) == e.type = "prefix"

\* Reload lines 54-56: the exact map; a later rule overwrites an earlier one
\* with the same key
BuildExact(routes) ==
    LET es == SelectSeq(Flatten(routes), IsExactRule)
        keyAt(i) == routeKey(es[i].host, es[i].path)
        last(k) == CHOOSE i \in 1..Len(es) :
                       keyAt(i) = k /\ \A j \in 1..Len(es) : keyAt(j) = k => j <= i
    IN  [k \in {keyAt(i) : i \in 1..Len(es)} |-> es[last(k)].upstream]

\* sortPrefixesByLength, inner loop: the entry moves left past every
\* neighbour that is strictly shorter
InsertByLength(sorted, e) ==
    LET longer == {i \in 1..Len(sorted) : Len(sorted[i].prefix) >= Len(e.prefix)}
        at == IF longer = {} THEN 0 ELSE CHOOSE i \in longer : \A j \in longer : j <= i
    IN  SubSeq(sorted, 1, at) \o <<e>> \o SubSeq(sorted, at + 1, Len(sorted))

RECURSIVE sortPrefixesByLength(_)
sortPrefixesByLength(entries) ==
    IF Len(entries) <= 1 THEN entries
    ELSE InsertByLength(sortPrefixesByLength(SubSeq(entries, 1, Len(entries) - 1)),
                        entries[Len(entries)])

\* Reload lines 57-68: the prefix list
BuildPrefixes(routes) ==
    LET es == SelectSeq(Flatten(routes), IsPrefixRule)
    IN  sortPrefixesByLength([i \in 1..Len(es) |->
            [host |-> es[i].host, prefix |-> es[i].path, upstream |-> es[i].upstream]])

NoMatch == [matched |-> FALSE, upstream |-> ""]
Matched(u) == [matched |-> TRUE, upstream |-> u]

\* Match lines 90-101 on a loaded exact map
MatchExact(exact, host, path) ==
    IF routeKey(host, path) \in DOMAIN exact THEN Matched(exact[routeKey(host, path)])
    ELSE IF host # <<>> /\ routeKey(<<>>, path) \in DOMAIN exact
         THEN Matched(exact[routeKey(<<>>, path)])
    ELSE NoMatch

\* Match lines 104-114 on a loaded prefix list
MatchPrefixes(prefixes, host, path) ==
    LET hits == {i \in 1..Len(prefixes) :
                    /\ ~(prefixes[i].host # <<>> /\ prefixes[i].host # host)
                    /\ HasPrefix(path, prefixes[i].prefix)}
    IN  IF hits = {} THEN NoMatch
        ELSE Matched(prefixes[CHOOSE i \in hits : \A j \in hits : i <= j].upstream)

\* Match on the two tables of one configuration
MatchIn(cfg, req) ==
    LET host == StripPort(req.Host)
        e == MatchExact(BuildExact(cfg.Routes), host, req.Path)
    IN  IF e.matched THEN e ELSE MatchPrefixes(BuildPrefixes(cfg.Routes), host, req.Path)

\* UpstreamManager.Reload lines 35-42: fresh groups, counters at zero
BuildUpstreams(ups) ==
    LET last(n) == CHOOSE i \in 1..Len(ups) :
                       ups[i].Name = n /\ \A j \in 1..Len(ups) : ups[j].Name = n => j <= i
    IN  [n \in {u.Name : u \in Range(ups)} |-> [targets |-> ups[last(n)].Targets, counter |-> 0]]

ValidConfigs == {f.cfg : f \in {g \in Files : LoadError(g) = ""}}

ProxyRequests ==
    [Method : {"GET"}, Host : {NoHost, HostH, HostHPort}, Path : {PathX, PathXY, PathA}]

NoGroup == [found |-> FALSE]

\* The state main reaches before it starts serving: Load, Router.Reload and
\* UpstreamManager.Reload of the configuration found at startup.
ProxyInit ==
    /\ \E c \in ValidConfigs :
          /\ loaderCurrent = c
          /\ routerExact = BuildExact(c.Routes)
          /\ routerPrefixes = BuildPrefixes(c.Routes)
          /\ upstreams = BuildUpstreams(c.Upstreams)
          /\ exactCfg = c /\ prefixesCfg = c /\ upstreamsCfg = c
    /\ loadErr = ""
    /\ wPc = "idle" /\ wCfg = Nil
    /\ rPc = "idle" /\ rReq = Nil /\ rResult = NoMatch /\ rGroup = NoGroup
    /\ rStatus = 0 /\ rTarget = ""
    /\ rSeen = {} /\ rReads = {}

ProxyIdle ==
    /\ routerExact = <<>> /\ routerPrefixes = <<>> /\ upstreams = <<>>
    /\ exactCfg = Nil /\ prefixesCfg = Nil /\ upstreamsCfg = Nil
    /\ wPc = "idle" /\ wCfg = Nil
    /\ rPc = "idle" /\ rReq = Nil /\ rResult = NoMatch /\ rGroup = NoGroup
    /\ rStatus = 0 /\ rTarget = ""
    /\ rSeen = {} /\ rReads = {}

\* Loader.Watch lines 76-93 with the callback main registers: the file has
\* changed and is loaded; on an error the watcher logs and keeps the current
\* configuration, otherwise the callback starts with Router.Reload.
WatcherLoad(file) ==
    /\ wPc = "idle"
    /\ loadErr' = LoadError(file)
    /\ loaderCurrent' = StoredByLoad(loaderCurrent, file)
    /\ IF LoadError(file) # ""
       THEN UNCHANGED watcherVars
       ELSE /\ wCfg' = file.cfg
            /\ wPc' = "storeExact"
    /\ UNCHANGED <<tableVars, requestVars, now, cbVars, rlVars, gwVars, vmVars, mwVars, rmVars, psVars, seVars, rdVars, plVars, adVars>>

\* Router.Reload line 70: r.exact.Store(&exact)
ReloadStoreExact ==
    /\ wPc = "storeExact"
    /\ routerExact' = BuildExact(wCfg.Routes)
    /\ exactCfg' = wCfg
    /\ rSeen' = IF rPc = "prefixes" THEN rSeen \cup {wCfg} ELSE rSeen
    /\ wPc' = "storePrefixes"
    /\ UNCHANGED <<loaderCurrent, loadErr, wCfg, routerPrefixes, upstreams, prefixesCfg,
                   upstreamsCfg, rPc, rReq, rResult, rGroup, rStatus, rTarget, rReads,
                   now, cbVars, rlVars, gwVars, vmVars, mwVars, rmVars, psVars, seVars, rdVars, plVars, adVars>>

\* Router.Reload line 71: r.prefixes.Store(&prefixes)
ReloadStorePrefixes ==
    /\ wPc = "storePrefixes"
    /\ routerPrefixes' = BuildPrefixes(wCfg.Routes)
    /\ prefixesCfg' = wCfg
    /\ wPc' = "reloadUpstreams"
    /\ UNCHANGED <<loaderCurrent, loadErr, wCfg, routerExact, upstreams, exactCfg,
                   upstreamsCfg, requestVars, now, cbVars, rlVars, gwVars, vmVars, mwVars, rmVars, psVars, seVars, rdVars, plVars, adVars>>

\* UpstreamManager.Reload, under the write lock; the callback then returns
UpstreamReload ==
    /\ wPc = "reloadUpstreams"
    /\ upstreams' = BuildUpstreams(wCfg.Upstreams)
    /\ upstreamsCfg' = wCfg
    /\ rGroup' = IF rGroup.found THEN [rGroup EXCEPT !.current = FALSE] ELSE rGroup
    /\ wPc' = "idle"
    /\ wCfg' = Nil
    /\ UNCHANGED <<loaderCurrent, loadErr, routerExact, routerPrefixes, exactCfg,
                   prefixesCfg, rPc, rReq, rResult, rStatus, rTarget, rSeen, rReads,
                   now, cbVars, rlVars, gwVars, vmVars, mwVars, rmVars, psVars, seVars, rdVars, plVars, adVars>>

\* Proxy.ServeHTTP calls Router.Match, lines 82-101: the exact map is loaded
\* and probed
ProxyMatchExact(req) ==
    /\ rPc \in {"idle", "done"}
    /\ rReq' = req
    /\ rSeen' = {exactCfg, prefixesCfg}
    /\ rReads' = {exactCfg}
    /\ rGroup' = NoGroup /\ rStatus' = 0 /\ rTarget' = ""
    /\ LET e == MatchExact(routerExact, StripPort(req.Host), req.Path)
       IN  /\ rResult' = e
           /\ rPc' = IF e.matched THEN "matched" ELSE "prefixes"
    /\ UNCHANGED <<loaderCurrent, loadErr, watcherVars, tableVars, now, cbVars, rlVars, gwVars, vmVars, mwVars, rmVars, psVars, seVars, rdVars, plVars, adVars>>

\* Router.Match lines 104-114: the prefix list is loaded and scanned
ProxyMatchPrefixes ==
    /\ rPc = "prefixes"
    /\ rResult' = MatchPrefixes(routerPrefixes, StripPort(rReq.Host), rReq.Path)
    /\ rReads' = rReads \cup {prefixesCfg}
    /\ rPc' = "matched"
    /\ UNCHANGED <<loaderCurrent, loadErr, watcherVars, tableVars, rReq, rGroup, rStatus,
                   rTarget, rSeen, now, cbVars, rlVars, gwVars, vmVars, mwVars, rmVars, psVars, seVars, rdVars, plVars, adVars>>

\* Proxy.ServeHTTP lines 96-99, and GetTarget lines 50-52: no match answers
\* 404; otherwise the group is read under the read lock
ProxyGetGroup ==
    /\ rPc = "matched"
    /\ IF ~rResult.matched
       THEN /\ rStatus' = 404
            /\ rPc' = "done"
            /\ UNCHANGED <<rGroup, rReads>>
       ELSE /\ rGroup' = IF rResult.upstream \in DOMAIN upstreams
                         THEN [found |-> TRUE, current |-> TRUE,
                               targets |-> upstreams[rResult.upstream].targets,
                               counter |-> upstreams[rResult.upstream].counter]
                         ELSE NoGroup
            /\ rReads' = rReads \cup {upstreamsCfg}
            /\ rPc' = "target"
            /\ UNCHANGED rStatus
    /\ UNCHANGED <<loaderCurrent, loadErr, watcherVars, tableVars, rReq, rResult, rTarget,
                   rSeen, now, cbVars, rlVars, gwVars, vmVars, mwVars, rmVars, psVars, seVars, rdVars, plVars, adVars>>

\* GetTarget lines 54-61 and Proxy.ServeHTTP lines 103-147: a missing or
\* empty group answers 502; otherwise the group's counter picks the target
\* and the request is proxied.  The counter is kept modulo the number of
\* targets; a group that Reload has replaced keeps its own counter.
ProxyPickTarget ==
    /\ rPc = "target"
    /\ IF ~rGroup.found \/ Len(rGroup.targets) = 0
       THEN /\ rStatus' = 502
            /\ UNCHANGED <<rTarget, upstreams>>
       ELSE /\ rTarget' = rGroup.targets[(rGroup.counter % Len(rGroup.targets)) + 1]
            /\ rStatus' = 200
            /\ upstreams' =
                  IF rGroup.current
                  THEN [upstreams EXCEPT ![rResult.upstream].counter =
                            (@ + 1) % Len(rGroup.targets)]
                  ELSE upstreams
    /\ rPc' = "done"
    /\ UNCHANGED <<loaderCurrent, loadErr, watcherVars, routerExact, routerPrefixes,
                   exactCfg, prefixesCfg, upstreamsCfg, rReq, rResult, rGroup, rSeen,
                   rReads, now, cbVars, rlVars, gwVars, vmVars, mwVars, rmVars, psVars, seVars, rdVars, plVars, adVars>>

\* ------------------------------------------------------------------------
\* Compiled configuration, store and gateway (package runtime)
\* ------------------------------------------------------------------------
\* method + "|" + path; the method is kept as one element
MethodKey(m, path) == (IF m = "" THEN <<>> ELSE <<m>>) \o <<"|">> \o path

\* FilterRegistry.Compile and the two factories: TRUE when an error is returned
FilterError(rf) ==
    \/ rf.Type \notin {"strip_prefix", "header_set"}
    \/ rf.Type = "strip_prefix" /\ ~HasArg(rf, "prefix")
    \/ rf.Type = "header_set" /\ ~HasArg(rf, "key")

\* Compile lines 64-68: the error Compile returns ("" for nil)
CompileError(cfg) ==
    IF \E r \in Range(cfg.RoutesV2) : \E f \in Range(r.Filters) : FilterError(f)
    THEN "route filter" ELSE ""

\* Compile lines 42-82; Methods = {} stands for the nil map
CompileRoute(rv2) ==
    [Name |-> rv2.Name,
     Match |-> [Methods |-> Range(rv2.Match.Methods), Path |-> rv2.Match.Path,
                PathPrefix |-> rv2.Match.PathPrefix],
     Filters |-> rv2.Filters,
     ClusterName |-> rv2.Upstream.Cluster]

\* Compile lines 85-96: the keys a route is indexed under
ExactKeys(rv2) ==
    IF rv2.Match.Path = <<>> THEN {}
    ELSE IF Len(rv2.Match.Methods) > 0
         THEN {MethodKey(m, rv2.Match.Path) : m \in Range(rv2.Match.Methods)}
         ELSE {MethodKey("", rv2.Match.Path)}

CompileExact(routes) ==
    LET last(k) == CHOOSE i \in 1..Len(routes) :
                       /\ k \in ExactKeys(routes[i])
                       /\ \A j \in 1..Len(routes) : k \in ExactKeys(routes[j]) => j <= i
    IN  [k \in UNION {ExactKeys(routes[i]) : i \in 1..Len(routes)} |->
            CompileRoute(routes[last(k)])]

HasPrefixEntry(rv2) == rv2.Match.PathPrefix # <<>> \/ rv2.Match.Path = <<>>

\* Compile lines 117-122: the order of sort.Slice
PrefixLess(a, b) ==
    IF Len(a.prefix) # Len(b.prefix) THEN Len(a.prefix) > Len(b.prefix)
    ELSE StrLess(a.prefix, b.prefix)

InsertPrefix(sorted, e) ==
    LET stay == {i \in 1..Len(sorted) : ~PrefixLess(e, sorted[i])}
        at == IF stay = {} THEN 0 ELSE CHOOSE i \in stay : \A j \in stay : j <= i
    IN  SubSeq(sorted, 1, at) \o <<e>> \o SubSeq(sorted, at + 1, Len(sorted))

RECURSIVE SortPrefixRoutes(_)
\* sort.Slice on a short slice is an insertion sort
SortPrefixRoutes(entries) ==
    IF Len(entries) <= 1 THEN entries
    ELSE InsertPrefix(SortPrefixRoutes(SubSeq(entries, 1, Len(entries) - 1)),
                      entries[Len(entries)])

\* Compile lines 98-122: the prefix list, a catch-all under "/"
CompilePrefixes(routes) ==
    LET rs == SelectSeq(routes, HasPrefixEntry)
    IN  SortPrefixRoutes([i \in 1..Len(rs) |->
            [prefix |-> IF rs[i].Match.PathPrefix # <<>> THEN rs[i].Match.PathPrefix
                        ELSE PathRoot,
             route |-> CompileRoute(rs[i])]])

\* Compile lines 16-34
CompileClusters(clusters) ==
    LET last(n) == CHOOSE i \in 1..Len(clusters) :
                       /\ clusters[i].Name = n
                       /\ \A j \in 1..Len(clusters) : clusters[j].Name = n => j <= i
    IN  [n \in {c.Name : c \in Range(clusters)} |->
            [Name |-> n,
             Type |-> IF clusters[last(n)].Type = "" THEN "http" ELSE clusters[last(n)].Type,
             Endpoints |-> clusters[last(n)].Endpoints,
             LB |-> IF clusters[last(n)].LB = "" THEN "round_robin" ELSE clusters[last(n)].LB]]

\* Compile, when it returns no error
Compile(cfg, version) ==
    [Version |-> version,
     Clusters |-> CompileClusters(cfg.Clusters),
     exactRoutes |-> CompileExact(cfg.RoutesV2),
     prefixRoutes |-> CompilePrefixes(cfg.RoutesV2)]

\* CompiledMatch.Matches (the modelled routes carry no header matchers)
Matches(m, req) ==
    /\ m.Methods # {} => req.Method \in m.Methods
    /\ m.Path # <<>> => req.Path = m.Path
    /\ m.PathPrefix # <<>> => HasPrefix(req.Path, m.PathPrefix)

NoRoute == [matched |-> FALSE]
Route(r) == [matched |-> TRUE, route |-> r]

\* RouterIndex.Match
RouterIndexMatch(cc, req) ==
    LET k1 == MethodKey(req.Method, req.Path)
        k2 == MethodKey("", req.Path)
        hits == {i \in 1..Len(cc.prefixRoutes) :
                    /\ HasPrefix(req.Path, cc.prefixRoutes[i].prefix)
                    /\ Matches(cc.prefixRoutes[i].route.Match, req)}
    IN  IF k1 \in DOMAIN cc.exactRoutes /\ Matches(cc.exactRoutes[k1].Match, req)
        THEN Route(cc.exactRoutes[k1])
        ELSE IF k2 \in DOMAIN cc.exactRoutes /\ Matches(cc.exactRoutes[k2].Match, req)
        THEN Route(cc.exactRoutes[k2])
        ELSE IF hits # {}
        THEN Route(cc.prefixRoutes[CHOOSE i \in hits : \A j \in hits : i <= j].route)
        ELSE NoRoute

\* a filter that puts a separator in front of whatever remains
AlwaysPrependSlash(f, path) ==
    IF f.Type = "strip_prefix" /\ HasPrefix(path, f.Args["prefix"])
    THEN <<"/">> \o TrimPrefix(path, f.Args["prefix"])
    ELSE path

\* stripPrefixFilter.Apply and headerSetFilter.Apply on the request path
ApplyFilter(f, path) ==
    IF f.Type = "strip_prefix" /\ HasPrefix(path, f.Args["prefix"])
    THEN LET newPath == TrimPrefix(path, f.Args["prefix"])
         IN  IF newPath = <<>> \/ newPath[1] # "/" THEN <<"/">> \o newPath ELSE newPath
    ELSE path

RECURSIVE ApplyFilters(_, _)
\* Gateway.ServeHTTP lines 313-322
ApplyFilters(fs, path) ==
    IF fs = <<>> THEN path ELSE ApplyFilters(Tail(fs), ApplyFilter(fs[1], path))

StoreKeepsFirst(old, new) == IF old = Nil THEN new ELSE old

\* ConfigStore.Store: the value the store holds afterwards
ConfigStoreStore(old, new) == new

\* ConfigStore.Load
ConfigStoreLoad(current) == current

\* the callers of a reload: the file watcher and the admin interface
Publishers == {"watcher", "admin"}

GatewayRequests == [Method : {"GET", "POST"}, Host : {NoHost}, Path : {PathX}]

ZeroCounters(cc) == [n \in DOMAIN cc.Clusters |-> 0]

\* NewConfigStore, NewGateway, the package's versionCounter
GatewayInit ==
    /\ versionCounter = 0
    /\ gwStore = Nil
    /\ counters = <<>>
    /\ pubPc = [p \in Publishers |-> "idle"]
    /\ pubCompiled = [p \in Publishers |-> Nil]
    /\ pubErr = [p \in Publishers |-> ""]
    /\ pubLog = <<>>
    /\ gPc = "idle" /\ gReq = Nil /\ gEntry = 0 /\ gCfg = Nil /\ gRoute = NoRoute
    /\ gPath = <<>> /\ gStatus = 0 /\ gTarget = ""

\* Loader.Load
Load(file) ==
    /\ loadErr' = LoadError(file)
    /\ loaderCurrent' = StoredByLoad(loaderCurrent, file)
    /\ UNCHANGED <<now, cbVars, rlVars, pxVars, gwVars, vmVars, mwVars, rmVars, psVars, seVars, rdVars, plVars, adVars>>

\* CompileAndStore lines 143-147, called with the loader's current
\* configuration: the version is drawn, the configuration compiled, and an
\* error returned to the caller
CompileStep(p) ==
    /\ pubPc[p] = "idle"
    /\ loaderCurrent # Nil
    /\ versionCounter < MaxPublishes
    /\ versionCounter' = versionCounter + 1
    /\ pubErr' = [pubErr EXCEPT ![p] = CompileError(loaderCurrent)]
    /\ IF CompileError(loaderCurrent) # ""
       THEN /\ counters' = Append(counters, <<>>)
            /\ UNCHANGED <<pubPc, pubCompiled>>
       ELSE /\ pubCompiled' = [pubCompiled EXCEPT
                                  ![p] = Compile(loaderCurrent, versionCounter + 1)]
            /\ counters' = Append(counters,
                                  ZeroCounters(Compile(loaderCurrent, versionCounter + 1)))
            /\ pubPc' = [pubPc EXCEPT ![p] = "store"]
    /\ UNCHANGED <<gwStore, pubLog, gatewayRequestVars, now, cbVars, rlVars, ldVars, pxVars, vmVars, mwVars, rmVars, psVars, seVars, rdVars, plVars, adVars>>

\* CompileAndStore lines 148-149: store.Store(compiled)
StoreStep(p) ==
    /\ pubPc[p] = "store"
    /\ gwStore' = ConfigStoreStore(gwStore, pubCompiled[p])
    /\ pubLog' = Append(pubLog, pubCompiled[p].Version)
    /\ pubPc' = [pubPc EXCEPT ![p] = "idle"]
    /\ pubCompiled' = [pubCompiled EXCEPT ![p] = Nil]
    /\ UNCHANGED <<versionCounter, counters, pubErr, gatewayRequestVars,
                   now, cbVars, rlVars, ldVars, pxVars, vmVars, mwVars, rmVars, psVars, seVars, rdVars, plVars, adVars>>

\* A request reaches Gateway.ServeHTTP
GatewayEnter(req) ==
    /\ gPc \in {"idle", "done"}
    /\ gReq' = req
    /\ gEntry' = Len(pubLog)
    /\ gCfg' = Nil /\ gRoute' = NoRoute /\ gPath' = req.Path /\ gStatus' = 0 /\ gTarget' = ""
    /\ gPc' = "entered"
    /\ UNCHANGED <<versionCounter, gwStore, counters, publisherVars, pubLog,
                   now, cbVars, rlVars, ldVars, pxVars, vmVars, mwVars, rmVars, psVars, seVars, rdVars, plVars, adVars>>

\* Gateway.ServeHTTP lines 299-303: cfg := g.store.Load()
GatewayLoad ==
    /\ gPc = "entered"
    /\ gCfg' = ConfigStoreLoad(gwStore)
    /\ IF ConfigStoreLoad(gwStore) = Nil
       THEN gStatus' = 503 /\ gPc' = "done"
       ELSE gPc' = "route" /\ UNCHANGED gStatus
    /\ UNCHANGED <<versionCounter, gwStore, counters, publisherVars, pubLog,
                   gReq, gEntry, gRoute, gPath, gTarget, now, cbVars, rlVars, ldVars, pxVars, vmVars, mwVars, rmVars, psVars, seVars, rdVars, plVars, adVars>>

\* Gateway.ServeHTTP lines 306-333: match, filters and cluster lookup, all
\* on cfg
GatewayRoute ==
    /\ gPc = "route"
    /\ LET m == RouterIndexMatch(gCfg, gReq)
       IN  /\ gRoute' = m
           /\ IF ~m.matched
              THEN gStatus' = 404 /\ gPc' = "done" /\ UNCHANGED gPath
              ELSE /\ gPath' = ApplyFilters(m.route.Filters, gReq.Path)
                   /\ IF m.route.ClusterName \in DOMAIN gCfg.Clusters
                      THEN gPc' = "dispatch" /\ UNCHANGED gStatus
                      ELSE gStatus' = 502 /\ gPc' = "done"
    /\ UNCHANGED <<versionCounter, gwStore, counters, publisherVars, pubLog,
                   gReq, gEntry, gCfg, gTarget, now, cbVars, rlVars, ldVars, pxVars, vmVars, mwVars, rmVars, psVars, seVars, rdVars, plVars, adVars>>

\* Gateway.ServeHTTP line 336, HTTPUpstream.Handle and NextEndpoint on the
\* cluster of cfg; the cluster's counter is kept modulo its endpoints.  With
\* no endpoint Handle returns its error before anything is written and
\* ServeHTTP only logs it: the client receives the 200 of net/http.
GatewayDispatch ==
    /\ gPc = "dispatch"
    /\ LET c == gCfg.Clusters[gRoute.route.ClusterName]
           n == counters[gCfg.Version][c.Name]
       IN  IF Len(c.Endpoints) = 0
           THEN gStatus' = 200 /\ UNCHANGED <<gTarget, counters>>
           ELSE /\ gTarget' = c.Endpoints[(n % Len(c.Endpoints)) + 1]
                /\ gStatus' = 200
                /\ counters' = [counters EXCEPT ![gCfg.Version][c.Name] =
                                   (n + 1) % Len(c.Endpoints)]
    /\ gPc' = "done"
    /\ UNCHANGED <<versionCounter, gwStore, publisherVars, pubLog,
                   gReq, gEntry, gCfg, gRoute, gPath, now, cbVars, rlVars, ldVars, pxVars, vmVars, mwVars, rmVars, psVars, seVars, rdVars, plVars, adVars>>

\* ------------------------------------------------------------------------
\* Configuration versions (config.VersionManager, admin.Server)
\* ------------------------------------------------------------------------
\* NewVersionManager lines 28-30: the history bound kept for an argument
NewVersionManager(maxHistory) == IF maxHistory <= 0 THEN 10 ELSE maxHistory

MaxHistoryInputs == (-1)..MaxHistoryInput

\* sha256.Sum256(rawData), printed: equal for equal data
Sha256(rawData) == <<"sha256", rawData>>

\* What the second os.ReadFile of the callback returns: the bytes of the file
\* the configuration was parsed from
RawData(cfg) == IF cfg = Cfg1 THEN "yaml-1" ELSE "yaml-2"

AConfigVersion(version, hash, cfg) == [Version |-> version, Hash |-> hash, Config |-> cfg]

\* a history that is never cut
KeepAll(versions, maxHistory) == versions

\* Save lines 53-55 and Rollback lines 112-114: the newest maxHistory entries
TrimHistory(versions, maxHistory) ==
    IF Len(versions) > maxHistory
    THEN SubSeq(versions, Len(versions) - maxHistory + 1, Len(versions))
    ELSE versions

\* Save lines 42-55: vm.versions after Save(cfg, rawData), the entry
\* numbered nextVer + 1
VMSave(versions, nextVer, maxHistory, cfg, rawData) ==
    TrimHistory(Append(versions, AConfigVersion(nextVer + 1, Sha256(rawData), cfg)),
                maxHistory)

\* Rollback line 97: no previous version
RollbackFails(versions) == Len(versions) < 2

\* Current line 66: the newest entry
Latest(versions) == versions[Len(versions)]

\* the newest entry taken for the previous one
NewestAsPrevious(versions) == versions[Len(versions)]

\* Rollback line 101: prev := vm.versions[len(vm.versions)-2]
Previous(versions) == versions[Len(versions) - 1]

\* a rollback that appends the previous entry as it is, number included
RollbackCopiesEntry(versions, nextVer, maxHistory) ==
    TrimHistory(Append(versions, Previous(versions)), maxHistory)

\* Rollback lines 101-114: vm.versions after a Rollback that succeeds
VMRollback(versions, nextVer, maxHistory) ==
    LET prev == Previous(versions)
    IN  TrimHistory(Append(versions, AConfigVersion(nextVer + 1, prev.Hash, prev.Config)),
                    maxHistory)

NoPrevious == "no previous version to rollback to"

\* a rollback that needs one stored version only and repeats the newest
RollbackWithOneVersion(versions, nextVer, maxHistory) ==
    IF Len(versions) < 1
    THEN [err |-> NoPrevious, cfg |-> Nil, versions |-> versions, nextVer |-> nextVer]
    ELSE [err |-> "", cfg |-> Latest(versions).Config,
          versions |-> TrimHistory(Append(versions,
                           AConfigVersion(nextVer + 1, Latest(versions).Hash,
                                          Latest(versions).Config)), maxHistory),
          nextVer |-> nextVer + 1]

\* Rollback: the error and configuration returned, vm.versions and
\* vm.nextVer afterwards
Rollback(versions, nextVer, maxHistory) ==
    IF RollbackFails(versions)
    THEN [err |-> NoPrevious, cfg |-> Nil, versions |-> versions, nextVer |-> nextVer]
    ELSE [err |-> "", cfg |-> Previous(versions).Config,
          versions |-> VMRollback(versions, nextVer, maxHistory),
          nextVer |-> nextVer + 1]

\* List: the version numbers of the history, oldest first
List(versions) == [i \in 1..Len(versions) |-> versions[i].Version]

\* Current lines 63-67
Current(versions) == IF Len(versions) = 0 THEN Nil ELSE versions[Len(versions)]

\* the configurations written to the watched file
VersionFiles == {Garbage, Yaml(Cfg1), Yaml(Cfg2)}

VMInit ==
    /\ vmVersions = <<>>
    /\ vmNextVer = 0
    /\ vmConfigured \in MaxHistoryInputs
    /\ vmMaxHistory = NewVersionManager(vmConfigured)
    /\ adminStatus = 0
    /\ vmIssued = {}

VMIdle ==
    /\ vmVersions = <<>>
    /\ vmNextVer = 0
    /\ vmConfigured = 10
    /\ vmMaxHistory = NewVersionManager(10)
    /\ adminStatus = 0
    /\ vmIssued = {}

\* A change of the watched file: Loader.Watch loads it and, when the load
\* succeeds, runs the callback of main: Router.Reload, UpstreamManager.Reload
\* and VersionManager.Save.
OnChange(file) ==
    /\ vmNextVer < MaxVersions
    /\ loadErr' = LoadError(file)
    /\ loaderCurrent' = StoredByLoad(loaderCurrent, file)
    /\ IF LoadError(file) # ""
       THEN UNCHANGED <<tableVars, vmVersions, vmNextVer, vmIssued>>
       ELSE /\ routerExact' = BuildExact(file.cfg.Routes)
            /\ routerPrefixes' = BuildPrefixes(file.cfg.Routes)
            /\ upstreams' = BuildUpstreams(file.cfg.Upstreams)
            /\ exactCfg' = file.cfg /\ prefixesCfg' = file.cfg /\ upstreamsCfg' = file.cfg
            /\ vmNextVer' = vmNextVer + 1
            /\ vmVersions' = VMSave(vmVersions, vmNextVer, vmMaxHistory,
                                    file.cfg, RawData(file.cfg))
            /\ vmIssued' = vmIssued \cup {Latest(vmVersions').Version}
    /\ UNCHANGED <<vmConfigured, vmMaxHistory, adminStatus, watcherVars, requestVars,
                   now, cbVars, rlVars, gwVars, mwVars, rmVars, psVars, seVars, rdVars, plVars, adVars>>

\* Server.rollbackConfig: 400 when Rollback returns an error, otherwise the
\* router and the upstream manager are reloaded with the configuration
\* Rollback returned
rollbackConfig ==
    /\ vmNextVer < MaxVersions
    /\ LET r == Rollback(vmVersions, vmNextVer, vmMaxHistory)
       IN  IF r.err # ""
           THEN /\ adminStatus' = 400
                /\ UNCHANGED <<vmVersions, vmNextVer, vmIssued, tableVars>>
           ELSE /\ vmVersions' = r.versions
                /\ vmNextVer' = r.nextVer
                /\ vmIssued' = vmIssued \cup {Latest(r.versions).Version}
                /\ routerExact' = BuildExact(r.cfg.Routes)
                /\ routerPrefixes' = BuildPrefixes(r.cfg.Routes)
                /\ upstreams' = BuildUpstreams(r.cfg.Upstreams)
                /\ exactCfg' = r.cfg /\ prefixesCfg' = r.cfg /\ upstreamsCfg' = r.cfg
                /\ adminStatus' = 200
    /\ UNCHANGED <<vmConfigured, vmMaxHistory, ldVars, watcherVars, requestVars,
                   now, cbVars, rlVars, gwVars, mwVars, rmVars, psVars, seVars, rdVars, plVars, adVars>>

\* ------------------------------------------------------------------------
\* Middleware chain (middleware.Chain)
\* ------------------------------------------------------------------------
\* What a middleware's handler does when served: run its code, call next
\* and run its code after next returns ("next"); answer without calling next,
\* as Auth does on a failed authentication ("respond"); panic before it
\* calls next ("panic"); or call next and panic after next has returned
\* ("panicAfter").
MiddlewareKinds == {"next", "respond", "panic", "panicAfter"}
Middlewares == [name : 1..MaxMiddlewares, kind : MiddlewareKinds]

\* the lists given to Chain: up to MaxMiddlewares middlewares, each once
MiddlewareLists ==
    {l \in UNION {[1..n -> Middlewares] : n \in 0..MaxMiddlewares} :
        \A i, j \in 1..Len(l) : l[i].name = l[j].name => i = j}

\* what the handler at the end of the chain does: write its answer and
\* return, panic before it writes, or panic after it has written
HandlerBehaviours == {"return", "panic", "writeThenPanic"}
Handler(does) == [kind |-> "handler", does |-> does]

\* recoverWrap(m(handler)), auth.go lines 45-46
Wrap(m, handler) == [kind |-> "wrapped", mw |-> m, next |-> handler]

Returned == [kind |-> "returned"]

RECURSIVE ChainFrom(_, _, _)
\* Chain lines 44-47: the loop from the last middleware down to the first,
\* i middlewares still to wrap
ChainFrom(handler, middlewares, i) ==
    IF i = 0
    THEN handler
    ELSE ChainFrom(Wrap(middlewares[i], handler), middlewares, i - 1)

Reverse(s) == [i \in 1..Len(s) |-> s[Len(s) + 1 - i]]

\* a loop that wraps the first middleware first
ChainFirstInnermost(handler, middlewares) ==
    ChainFrom(handler, Reverse(middlewares), Len(middlewares))

\* Chain
Chain(handler, middlewares) == ChainFrom(handler, middlewares, Len(middlewares))

Names(l) == [i \in 1..Len(l) |-> l[i].name]

\* the list of the chain being served
Served == IF mwRun = "declared" THEN mwList ELSE Reverse(mwList)

\* the kind of the middleware of a name
KindOf(name) == (CHOOSE m \in Range(mwList) : m.name = name).kind

\* http.ResponseWriter.WriteHeader: the status line is written once, a
\* second call changes nothing (status 0: nothing written yet)
WriteHeader(status, code) == IF status = 0 THEN code ELSE status

InternalServerError == "Internal Server Error"

\* a recovery that writes nothing
NothingWritten(resp) == resp

\* recoverWrap line 59: http.Error(w, "Internal Server Error", 500), that is
\* WriteHeader(500) and a write of the text, whatever was written before
HttpError(resp) ==
    [status |-> WriteHeader(resp.status, 500), body |-> Append(resp.body, InternalServerError)]

\* the response written so far
Response == [status |-> mwStatus, body |-> mwBody]

\* a request is about to be served by Chain(handler, middlewares...)
MWInit ==
    /\ mwList \in MiddlewareLists
    /\ mwHandler \in {Handler(d) : d \in HandlerBehaviours}
    /\ mwRun = "declared"
    /\ mwCur = Chain(mwHandler, mwList)
    /\ mwStack = <<>>
    /\ mwPre = <<>> /\ mwPost = <<>>
    /\ mwStatus = 0 /\ mwBody = <<>>
    /\ mwEscaped = FALSE /\ mwRecovered = 0
    /\ mwDeclaredPre = <<>> /\ mwDeclaredPost = <<>>

MWIdle ==
    /\ mwList = <<>>
    /\ mwHandler = Handler("return")
    /\ mwRun = "declared"
    /\ mwCur = Returned
    /\ mwStack = <<>>
    /\ mwPre = <<>> /\ mwPost = <<>>
    /\ mwStatus = 0 /\ mwBody = <<>>
    /\ mwEscaped = FALSE /\ mwRecovered = 0
    /\ mwDeclaredPre = <<>> /\ mwDeclaredPost = <<>>

\* ServeHTTP of a wrapped middleware: its code before next runs; then it
\* calls next, answers by itself, or panics and its recoverWrap recovers
ServeMiddleware ==
    /\ mwCur.kind = "wrapped"
    /\ mwPre' = Append(mwPre, mwCur.mw.name)
    /\ IF mwCur.mw.kind \in {"next", "panicAfter"}
       THEN /\ mwStack' = Append(mwStack, mwCur.mw.name)
            /\ mwCur' = mwCur.next
            /\ UNCHANGED <<mwStatus, mwBody, mwRecovered>>
       ELSE /\ IF mwCur.mw.kind = "respond"
               THEN /\ mwStatus' = WriteHeader(mwStatus, 401)
                    /\ mwBody' = Append(mwBody, "unauthorized")
                    /\ UNCHANGED mwRecovered
               ELSE /\ mwStatus' = HttpError(Response).status
                    /\ mwBody' = HttpError(Response).body
                    /\ mwRecovered' = mwRecovered + 1
            /\ mwCur' = Returned
            /\ UNCHANGED mwStack
    /\ UNCHANGED <<mwList, mwHandler, mwRun, mwPost, mwEscaped, mwDeclaredPre,
                   mwDeclaredPost, now, cbVars, rlVars, ldVars, pxVars, gwVars, vmVars, rmVars, psVars, seVars, rdVars, plVars, adVars>>

\* ServeHTTP of the handler at the end of the chain. A panic unwinds the
\* middleware that called it, whose recoverWrap recovers; with no
\* middleware there is no recoverWrap and the panic leaves the chain.
ServeHandler ==
    /\ mwCur.kind = "handler"
    /\ mwCur' = Returned
    /\ LET written == IF mwCur.does = "panic"
                      THEN Response
                      ELSE [status |-> WriteHeader(mwStatus, 200),
                            body |-> Append(mwBody, "ok")]
       IN  IF mwCur.does = "return"
           THEN /\ mwStatus' = written.status
                /\ mwBody' = written.body
                /\ UNCHANGED <<mwStack, mwEscaped, mwRecovered>>
           ELSE IF mwStack = <<>>
                THEN /\ mwStatus' = written.status
                     /\ mwBody' = written.body
                     /\ mwEscaped' = TRUE
                     /\ UNCHANGED <<mwStack, mwRecovered>>
                ELSE /\ mwStatus' = HttpError(written).status
                     /\ mwBody' = HttpError(written).body
                     /\ mwStack' = SubSeq(mwStack, 1, Len(mwStack) - 1)
                     /\ mwRecovered' = mwRecovered + 1
                     /\ UNCHANGED mwEscaped
    /\ UNCHANGED <<mwList, mwHandler, mwRun, mwPre, mwPost, mwDeclaredPre, mwDeclaredPost,
                   now, cbVars, rlVars, ldVars, pxVars, gwVars, vmVars, rmVars, psVars, seVars, rdVars, plVars, adVars>>

\* next.ServeHTTP returns to the middleware that called it: its code after
\* next runs, or panics and its recoverWrap recovers
ReturnToMiddleware ==
    /\ mwCur.kind = "returned"
    /\ mwStack # <<>>
    /\ mwStack' = SubSeq(mwStack, 1, Len(mwStack) - 1)
    /\ IF KindOf(mwStack[Len(mwStack)]) = "panicAfter"
       THEN /\ mwStatus' = HttpError(Response).status
            /\ mwBody' = HttpError(Response).body
            /\ mwRecovered' = mwRecovered + 1
            /\ UNCHANGED mwPost
       ELSE /\ mwPost' = Append(mwPost, mwStack[Len(mwStack)])
            /\ UNCHANGED <<mwStatus, mwBody, mwRecovered>>
    /\ UNCHANGED <<mwList, mwHandler, mwRun, mwCur, mwPre, mwEscaped,
                   mwDeclaredPre, mwDeclaredPost,
                   now, cbVars, rlVars, ldVars, pxVars, gwVars, vmVars, rmVars, psVars, seVars, rdVars, plVars, adVars>>

\* the same request served by the chain of the reversed list
ServeReversed ==
    /\ mwCur.kind = "returned"
    /\ mwStack = <<>>
    /\ mwRun = "declared"
    /\ mwRun' = "reversed"
    /\ mwDeclaredPre' = mwPre
    /\ mwDeclaredPost' = mwPost
    /\ mwCur' = Chain(mwHandler, Reverse(mwList))
    /\ mwPre' = <<>> /\ mwPost' = <<>>
    /\ mwStatus' = 0 /\ mwBody' = <<>>
    /\ mwEscaped' = FALSE /\ mwRecovered' = 0
    /\ UNCHANGED <<mwList, mwHandler, mwStack,
                   now, cbVars, rlVars, ldVars, pxVars, gwVars, vmVars, rmVars, psVars, seVars, rdVars, plVars, adVars>>

\* ------------------------------------------------------------------------
\* Rate-limit middleware (middleware.RateLimit)
\* ------------------------------------------------------------------------
\* the remote addresses of the requests: the byte strings the limiter is
\* modelled for
RemoteAddrs == Keys

\* ClientIPKeyExtractor: r.RemoteAddr as it is
ClientIPKeyExtractor(remoteAddr) == remoteAddr

\* the middleware of a limiter that has served no request
RMInit ==
    /\ rmStatus = 0
    /\ rmRetryAfter = ""
    /\ rmNextCalled = FALSE
    /\ rmLog = [a \in RemoteAddrs |-> <<>>]

RMIdle ==
    /\ rmStatus = 0
    /\ rmRetryAfter = ""
    /\ rmNextCalled = FALSE
    /\ rmLog = [a \in RemoteAddrs |-> <<>>]

\* a denial that is passed on to next all the same
PassDenied(allowed) == TRUE

\* RateLimit line 23: the request goes on to next when Allow returned true
PassToNext(allowed) == allowed

\* The handler RateLimit returns, serving a request from remoteAddr with a
\* next handler that answers 200: the key is extracted, Allow is called, and
\* the request is answered 429 with Retry-After or passed to next.
RateLimitServe(remoteAddr) ==
    /\ LimiterAllow(ClientIPKeyExtractor(remoteAddr))
    /\ rmNextCalled' = PassToNext(rlResult')
    /\ IF PassToNext(rlResult')
       THEN rmStatus' = 200 /\ rmRetryAfter' = ""
       ELSE rmStatus' = 429 /\ rmRetryAfter' = "60"
    /\ rmLog' = [rmLog EXCEPT ![remoteAddr] = Append(@, rmStatus')]
    /\ UNCHANGED <<cbVars, ldVars, pxVars, gwVars, vmVars, mwVars, psVars, seVars, rdVars, plVars, adVars>>

\* ------------------------------------------------------------------------
\* Path matching and the strip_prefix filter on arbitrary paths
\* (proxy.Router.Match, runtime.RouterIndex.Match, stripPrefixFilter.Apply)
\* ------------------------------------------------------------------------
\* The characters of the paths: the separator and two letters
PathChars == {"/", "a", "x"}

\* The paths of at most n characters that start with the separator
PathsUpTo(n) ==
    {p \in UNION {[1..k -> PathChars] : k \in 1..n} : p[1] = "/"}

\* the request paths and the prefixes of the rules
RequestPaths == PathsUpTo(MaxPathLen)
RulePrefixes == PathsUpTo(MaxPrefixLen)

PathAX == <<"/", "a", "x">>
PathASlashX == <<"/", "a", "/", "x">>

\* A configuration with one rule: everything under prefix goes to A, through
\* a strip_prefix filter of the same prefix on the compiled path
PrefixRuleConfig(prefix) ==
    [Listen |-> ":8080",
     Upstreams |-> <<AnUpstream("A", <<"a1">>)>>,
     Routes |-> <<ARoute("r", NoHost, <<Prefix(prefix)>>, "A")>>,
     Clusters |-> <<ACluster("A", <<"a1">>)>>,
     RoutesV2 |-> <<ARouteV2("v", <<>>, <<>>, prefix,
                             <<AFilter("strip_prefix", PrefixArg(prefix))>>, "A")>>]

PathRequest(path) == [Method |-> "GET", Host |-> NoHost, Path |-> path]

PSInit ==
    /\ psPrefix \in RulePrefixes
    /\ psPath \in RequestPaths
    /\ psLegacy = Nil
    /\ psCompiled = Nil
    /\ psStripped = Nil

PSIdle ==
    /\ psPrefix = <<>>
    /\ psPath = <<>>
    /\ psLegacy = Nil
    /\ psCompiled = Nil
    /\ psStripped = Nil

\* Router.Match on the tables Reload builds from the rule
RouterMatch ==
    /\ psLegacy = Nil
    /\ psLegacy' = MatchIn(PrefixRuleConfig(psPrefix), PathRequest(psPath))
    /\ UNCHANGED <<now, cbVars, rlVars, ldVars, pxVars, gwVars, vmVars, mwVars, rmVars,
                   psPrefix, psPath, psCompiled, psStripped, seVars, rdVars, plVars, adVars>>

\* RouterIndex.Match on the index Compile builds from the rule
IndexMatch ==
    /\ psCompiled = Nil
    /\ psCompiled' = RouterIndexMatch(Compile(PrefixRuleConfig(psPrefix), 1),
                                      PathRequest(psPath))
    /\ UNCHANGED <<now, cbVars, rlVars, ldVars, pxVars, gwVars, vmVars, mwVars, rmVars,
                   psPrefix, psPath, psLegacy, psStripped, seVars, rdVars, plVars, adVars>>

\* stripPrefixFilter.Apply of the rule's filter on the request: the URL the
\* request carries afterwards
StripPrefixApply ==
    /\ psStripped = Nil
    /\ psStripped' =
        [Path |-> ApplyFilter(PrefixRuleConfig(psPrefix).RoutesV2[1].Filters[1], psPath)]
    /\ UNCHANGED <<now, cbVars, rlVars, ldVars, pxVars, gwVars, vmVars, mwVars, rmVars,
                   psPrefix, psPath, psLegacy, psCompiled, seVars, rdVars, plVars, adVars>>

\* ------------------------------------------------------------------------
\* Endpoint selection (proxy.UpstreamManager.GetTarget on a group,
\* runtime.CompiledCluster.NextEndpoint on a cluster) and the answer of the
\* request that asked for it (Proxy.ServeHTTP, Gateway.ServeHTTP with
\* HTTPUpstream.Handle).  No reload happens: the group / cluster is the one
\* built at the start.  The counters are uint64; the model stops far below
\* the 2^64 selections a wrap-around takes.
\* ------------------------------------------------------------------------
\* The requests served concurrently
Selectors == {"s1", "s2"}

\* The i-th endpoint of a cluster (its address)
Endpoint(i) == <<"e", i>>

\* config.ClusterEndpoint{} / the empty address, returned with ok = false
NoEndpoint == <<>>

\* the endpoint lists of zero to MaxEndpoints endpoints
EndpointLists == {[i \in 1..n |-> Endpoint(i)] : n \in 0..MaxEndpoints}

SelectionImpls == {"GetTarget", "NextEndpoint"}

\* atomic.Uint64.Add(1): the new value of the counter
CounterAdd(counter) == counter + 1

\* the first endpoint whatever the counter says
PickFirst(endpoints, idx) == endpoints[1]

\* GetTarget line 60, NextEndpoint line 39: the element at idx modulo the length
Pick(endpoints, idx) == endpoints[(idx % Len(endpoints)) + 1]

\* What the client receives when the selection returns ok = false.
\* Proxy.ServeHTTP lines 102-106 answers 502.  HTTPUpstream.Handle returns an
\* error without writing, Gateway.ServeHTTP lines 336-343 only logs it, and
\* net/http answers 200 for a handler that returned without writing.
NoEndpointStatus(impl) ==
    IF impl = "GetTarget" THEN 502 ELSE WriteHeader(0, 200)

\* the outcomes of forwarding: the backend's answer, or the ErrorHandler's 502
ForwardStatuses == {200, 502}

SEInit ==
    /\ seImpl \in SelectionImpls
    /\ seEndpoints \in EndpointLists
    /\ seHealthy = [e \in Range(seEndpoints) |-> TRUE]
    /\ seCounter = 0
    /\ sePc = [p \in Selectors |-> "idle"]
    /\ seIdx = [p \in Selectors |-> 0]
    /\ seOk = [p \in Selectors |-> FALSE]
    /\ seEp = [p \in Selectors |-> NoEndpoint]
    /\ seStatus = [p \in Selectors |-> 0]
    /\ seLog = <<>>

SEIdle ==
    /\ seImpl = "NextEndpoint"
    /\ seEndpoints = <<>>
    /\ seHealthy = [e \in {} |-> TRUE]
    /\ seCounter = 0
    /\ sePc = [p \in Selectors |-> "idle"]
    /\ seIdx = [p \in Selectors |-> 0]
    /\ seOk = [p \in Selectors |-> FALSE]
    /\ seEp = [p \in Selectors |-> NoEndpoint]
    /\ seStatus = [p \in Selectors |-> 0]
    /\ seLog = <<>>

\* mark(endpoint, healthy) of the prober and the passive observer
Mark(ep, healthy) ==
    /\ ep \in DOMAIN seHealthy
    /\ seHealthy[ep] # healthy
    /\ seHealthy' = [seHealthy EXCEPT ![ep] = healthy]
    /\ UNCHANGED <<now, cbVars, rlVars, ldVars, pxVars, gwVars, vmVars, mwVars, rmVars,
                   psVars, seImpl, seEndpoints, seCounter, sePc, seIdx, seOk, seEp,
                   seStatus, seLog, rdVars, plVars, adVars>>

\* A request reaches the selection: GetTarget lines 50-59, NextEndpoint lines
\* 35-38.  With no endpoint it returns ok = false and the request is answered;
\* otherwise the counter is advanced in one atomic step.
SelectAdd(p) ==
    /\ sePc[p] \in {"idle", "done"}
    /\ seCounter < MaxSelections
    /\ seOk' = [seOk EXCEPT ![p] = FALSE]
    /\ seEp' = [seEp EXCEPT ![p] = NoEndpoint]
    /\ IF Len(seEndpoints) = 0
       THEN /\ seStatus' = [seStatus EXCEPT ![p] = NoEndpointStatus(seImpl)]
            /\ sePc' = [sePc EXCEPT ![p] = "done"]
            /\ UNCHANGED <<seCounter, seIdx, seLog>>
       ELSE /\ seCounter' = CounterAdd(seCounter)
            /\ seIdx' = [seIdx EXCEPT ![p] = CounterAdd(seCounter) - 1]
            /\ seLog' = Append(seLog, NoEndpoint)
            /\ seStatus' = [seStatus EXCEPT ![p] = 0]
            /\ sePc' = [sePc EXCEPT ![p] = "added"]
    /\ UNCHANGED <<now, cbVars, rlVars, ldVars, pxVars, gwVars, vmVars, mwVars, rmVars,
                   psVars, seImpl, seEndpoints, seHealthy, rdVars, plVars, adVars>>

\* GetTarget lines 60-61, NextEndpoint line 39: the endpoint at the index is
\* returned, and the request is forwarded to it
SelectReturn(p) ==
    /\ sePc[p] = "added"
    /\ seOk' = [seOk EXCEPT ![p] = TRUE]
    /\ seEp' = [seEp EXCEPT ![p] = Pick(seEndpoints, seIdx[p])]
    /\ seLog' = [seLog EXCEPT ![seIdx[p] + 1] = Pick(seEndpoints, seIdx[p])]
    /\ \E status \in ForwardStatuses : seStatus' = [seStatus EXCEPT ![p] = status]
    /\ sePc' = [sePc EXCEPT ![p] = "done"]
    /\ UNCHANGED <<now, cbVars, rlVars, ldVars, pxVars, gwVars, vmVars, mwVars, rmVars,
                   psVars, seImpl, seEndpoints, seHealthy, seCounter, seIdx, rdVars, plVars, adVars>>

\* ------------------------------------------------------------------------
\* Readiness and graceful shutdown (health.Checker and the start and
\* shutdown sequence of main).  The admin server, which carries neither
\* /readyz nor gateway traffic, is left out: its Shutdown only takes time.
\* ------------------------------------------------------------------------
\* the servers whose mux carries /readyz and the gateway: srv and tlsSrv
Servers == {"srv", "tls"}

\* cfg.Server.ShutdownTimeout in clock ticks (30 s when the field is zero)
ShutdownTimeouts == 1..MaxShutdownTimeout

\* the exit code of a process that has not exited
Running == -1

\* NewChecker: ready is false.  main has not loaded the configuration yet.
RDInit ==
    /\ rdTLS \in BOOLEAN
    /\ rdTimeout \in ShutdownTimeouts
    /\ rdMain = "load"
    /\ rdGo = "none"
    /\ rdListen = [s \in Servers |-> "new"]
    /\ rdReady = FALSE
    /\ rdStatus = [s \in Servers |-> 0]
    /\ rdBody = [s \in Servers |-> ""]
    /\ rdInflight = [s \in Servers |-> 0]
    /\ rdElapsed = 0
    /\ rdExit = Running

RDIdle ==
    /\ rdTLS = FALSE
    /\ rdTimeout = 1
    /\ rdMain = "load"
    /\ rdGo = "none"
    /\ rdListen = [s \in Servers |-> "new"]
    /\ rdReady = FALSE
    /\ rdStatus = [s \in Servers |-> 0]
    /\ rdBody = [s \in Servers |-> ""]
    /\ rdInflight = [s \in Servers |-> 0]
    /\ rdElapsed = 0
    /\ rdExit = Running

\* ReadyzHandler lines 36-43: the answer for a value of the flag
ReadyzAnswer(ready) ==
    IF ready THEN [status |-> 200, body |-> "ready"]
    ELSE [status |-> 503, body |-> "not ready"]

\* http.Server.ListenAndServe: serves, unless Shutdown was called before
ListenAndServe(state) == IF state = "closed" THEN "closed" ELSE "serving"

\* a Shutdown that returns without waiting, as http.Server.Close does
ReturnsAtOnce(inflight, expired) == TRUE

\* http.Server.Shutdown(ctx), once the listeners are closed: it returns when
\* no connection is serving a request any more, or when ctx is done
ShutdownReturns(inflight, expired) == inflight = 0 \/ expired

\* what Shutdown returns then: nil (FALSE) or ctx.Err() (TRUE)
ShutdownError(inflight) == inflight # 0

\* context.WithTimeout(shutdownTimeout): whether ctx is done
Expired == rdElapsed >= rdTimeout

\* main lines 38-61: the configuration is loaded and the router and the
\* upstream manager are reloaded with it (the initial snapshot)
InstallSnapshot ==
    /\ rdMain = "load"
    /\ rdMain' = "installed"
    /\ UNCHANGED <<now, cbVars, rlVars, ldVars, pxVars, gwVars, vmVars, mwVars, rmVars,
                   psVars, seVars, rdTLS, rdTimeout, rdGo, rdListen, rdReady, rdStatus,
                   rdBody, rdInflight, rdElapsed, rdExit, plVars, adVars>>

\* main lines 150-178: the TLS server, when enabled, is started on the mux
StartTLS ==
    /\ rdMain = "installed"
    /\ rdMain' = "tls"
    /\ rdListen' = IF rdTLS THEN [rdListen EXCEPT !["tls"] = ListenAndServe(@)]
                   ELSE rdListen
    /\ UNCHANGED <<now, cbVars, rlVars, ldVars, pxVars, gwVars, vmVars, mwVars, rmVars,
                   psVars, seVars, rdTLS, rdTimeout, rdGo, rdReady, rdStatus, rdBody,
                   rdInflight, rdElapsed, rdExit, plVars, adVars>>

\* main line 215: go func() { ... }, and main goes on to wait for a signal
StartServer ==
    /\ rdMain = "tls"
    /\ rdMain' = "waiting"
    /\ rdGo' = "started"
    /\ UNCHANGED <<now, cbVars, rlVars, ldVars, pxVars, gwVars, vmVars, mwVars, rmVars,
                   psVars, seVars, rdTLS, rdTimeout, rdListen, rdReady, rdStatus, rdBody,
                   rdInflight, rdElapsed, rdExit, plVars, adVars>>

\* the goroutine, line 217: checker.SetReady(true)
GoSetReady ==
    /\ rdExit = Running
    /\ rdGo = "started"
    /\ rdReady' = TRUE
    /\ rdGo' = "ready"
    /\ UNCHANGED <<now, cbVars, rlVars, ldVars, pxVars, gwVars, vmVars, mwVars, rmVars,
                   psVars, seVars, rdTLS, rdTimeout, rdMain, rdListen, rdStatus, rdBody,
                   rdInflight, rdElapsed, rdExit, plVars, adVars>>

\* the goroutine, line 218: srv.ListenAndServe()
GoListenAndServe ==
    /\ rdExit = Running
    /\ rdGo = "ready"
    /\ rdListen' = [rdListen EXCEPT !["srv"] = ListenAndServe(@)]
    /\ rdGo' = "listening"
    /\ UNCHANGED <<now, cbVars, rlVars, ldVars, pxVars, gwVars, vmVars, mwVars, rmVars,
                   psVars, seVars, rdTLS, rdTimeout, rdMain, rdReady, rdStatus, rdBody,
                   rdInflight, rdElapsed, rdExit, plVars, adVars>>

\* main lines 227-239: the signal is received and shutdown begins with
\* checker.SetReady(false); the context of the shutdown starts to run
BeginShutdown ==
    /\ rdMain = "waiting"
    /\ rdReady' = FALSE
    /\ rdElapsed' = 0
    /\ rdMain' = "shutdown"
    /\ UNCHANGED <<now, cbVars, rlVars, ldVars, pxVars, gwVars, vmVars, mwVars, rmVars,
                   psVars, seVars, rdTLS, rdTimeout, rdGo, rdListen, rdStatus, rdBody,
                   rdInflight, rdExit, plVars, adVars>>

\* time passes during the shutdown, up to the deadline of the context
ShutdownTick ==
    /\ rdMain \in {"shutdown", "tlswait", "tlsdown", "srvwait"}
    /\ ~Expired
    /\ rdElapsed' = rdElapsed + 1
    /\ UNCHANGED <<now, cbVars, rlVars, ldVars, pxVars, gwVars, vmVars, mwVars, rmVars,
                   psVars, seVars, rdTLS, rdTimeout, rdMain, rdGo, rdListen, rdReady,
                   rdStatus, rdBody, rdInflight, rdExit, plVars, adVars>>

\* main lines 241-242: tlsSrv.Shutdown is called when there is a TLS server;
\* it closes the listener first
ShutdownTLS ==
    /\ rdMain = "shutdown"
    /\ rdMain' = IF rdTLS THEN "tlswait" ELSE "tlsdown"
    /\ rdListen' = IF rdTLS THEN [rdListen EXCEPT !["tls"] = "closed"] ELSE rdListen
    /\ UNCHANGED <<now, cbVars, rlVars, ldVars, pxVars, gwVars, vmVars, mwVars, rmVars,
                   psVars, seVars, rdTLS, rdTimeout, rdGo, rdReady, rdStatus, rdBody,
                   rdInflight, rdElapsed, rdExit, plVars, adVars>>

\* main lines 242-244: tlsSrv.Shutdown returns; an error is only logged
TLSShutdownReturns ==
    /\ rdMain = "tlswait"
    /\ ShutdownReturns(rdInflight["tls"], Expired)
    /\ rdMain' = "tlsdown"
    /\ UNCHANGED <<now, cbVars, rlVars, ldVars, pxVars, gwVars, vmVars, mwVars, rmVars,
                   psVars, seVars, rdTLS, rdTimeout, rdGo, rdListen, rdReady, rdStatus,
                   rdBody, rdInflight, rdElapsed, rdExit, plVars, adVars>>

\* main line 253: srv.Shutdown is called; it closes the listener first
ShutdownSrv ==
    /\ rdMain = "tlsdown"
    /\ rdMain' = "srvwait"
    /\ rdListen' = [rdListen EXCEPT !["srv"] = "closed"]
    /\ UNCHANGED <<now, cbVars, rlVars, ldVars, pxVars, gwVars, vmVars, mwVars, rmVars,
                   psVars, seVars, rdTLS, rdTimeout, rdGo, rdReady, rdStatus, rdBody,
                   rdInflight, rdElapsed, rdExit, plVars, adVars>>

\* main lines 253-258: srv.Shutdown returns and the process exits, with
\* os.Exit(1) on an error and by returning from main otherwise
SrvShutdownReturns ==
    /\ rdMain = "srvwait"
    /\ ShutdownReturns(rdInflight["srv"], Expired)
    /\ rdMain' = "stopped"
    /\ rdExit' = IF ShutdownError(rdInflight["srv"]) THEN 1 ELSE 0
    /\ UNCHANGED <<now, cbVars, rlVars, ldVars, pxVars, gwVars, vmVars, mwVars, rmVars,
                   psVars, seVars, rdTLS, rdTimeout, rdGo, rdListen, rdReady, rdStatus,
                   rdBody, rdInflight, rdElapsed, plVars, adVars>>

\* a server that is serving accepts a connection and starts on its request
Accept(s) ==
    /\ rdExit = Running
    /\ rdListen[s] = "serving"
    /\ rdInflight[s] < MaxInflight
    /\ rdInflight' = [rdInflight EXCEPT ![s] = @ + 1]
    /\ UNCHANGED <<now, cbVars, rlVars, ldVars, pxVars, gwVars, vmVars, mwVars, rmVars,
                   psVars, seVars, rdTLS, rdTimeout, rdMain, rdGo, rdListen, rdReady,
                   rdStatus, rdBody, rdElapsed, rdExit, plVars, adVars>>

\* a request in flight completes; its connection becomes idle
Complete(s) ==
    /\ rdExit = Running
    /\ rdInflight[s] > 0
    /\ rdInflight' = [rdInflight EXCEPT ![s] = @ - 1]
    /\ UNCHANGED <<now, cbVars, rlVars, ldVars, pxVars, gwVars, vmVars, mwVars, rmVars,
                   psVars, seVars, rdTLS, rdTimeout, rdMain, rdGo, rdListen, rdReady,
                   rdStatus, rdBody, rdElapsed, rdExit, plVars, adVars>>

\* GET /readyz on a server that is serving: ReadyzHandler
Readyz(s) ==
    /\ rdExit = Running
    /\ rdListen[s] = "serving"
    /\ rdStatus' = [rdStatus EXCEPT ![s] = ReadyzAnswer(rdReady).status]
    /\ rdBody' = [rdBody EXCEPT ![s] = ReadyzAnswer(rdReady).body]
    /\ UNCHANGED <<now, cbVars, rlVars, ldVars, pxVars, gwVars, vmVars, mwVars, rmVars,
                   psVars, seVars, rdTLS, rdTimeout, rdMain, rdGo, rdListen, rdReady,
                   rdInflight, rdElapsed, rdExit, plVars, adVars>>

\* ------------------------------------------------------------------------
\* The plugin chain (plugin.NewChain, plugin.Chain.Execute)
\* ------------------------------------------------------------------------
\* Plugin.Order values
PluginOrders == {10, 20}

\* What a plugin's Execute does: it calls next a number of times (a terminal
\* plugin never, a retrying one more than once) and then returns nil or its
\* error.  id tells the plugins of one chain apart.
PluginBehaviours == [order : PluginOrders, nexts : 0..MaxNextCalls, err : BOOLEAN]

APlugin(id, b) == [id |-> id, order |-> b.order, nexts |-> b.nexts, err |-> b.err]

\* the argument lists of NewChain with n plugins
PluginLists(n) ==
    {[i \in 1..n |-> APlugin(i, bs[i])] : bs \in [1..n -> PluginBehaviours]}

IndexPermutations(n) == {f \in [1..n -> 1..n] : \A i, j \in 1..n : i # j => f[i] # f[j]}

\* NewChain: the lists sort.Slice may leave, ascending by Order (the sort is
\* not stable: plugins of the same Order come in any order)
NewChain(plugins) ==
    LET n == Len(plugins)
    IN  {[i \in 1..n |-> plugins[f[i]]] : f \in
            {g \in IndexPermutations(n) :
                \A i, j \in 1..n : i < j => plugins[g[i]].order <= plugins[g[j]].order}}

PLInit ==
    /\ \E n \in 0..MaxPlugins : plPlugins \in UNION {NewChain(ps) : ps \in PluginLists(n)}
    /\ plPc = "idle"
    /\ plIndex = 0
    /\ plChainErr = 0
    /\ plStack = <<>>
    /\ plCalling = FALSE
    /\ plRan = <<>>
    /\ plCalledNext = {}
    /\ plStopped = {}

PLIdle ==
    /\ plPlugins = <<>>
    /\ plPc = "idle"
    /\ plIndex = 0
    /\ plChainErr = 0
    /\ plStack = <<>>
    /\ plCalling = FALSE
    /\ plRan = <<>>
    /\ plCalledNext = {}
    /\ plStopped = {}

\* Execute lines 207-209 and 221: the state is set up and run is called
ExecuteBegin ==
    /\ plPc = "idle"
    /\ plPc' = "running"
    /\ plIndex' = 0
    /\ plChainErr' = 0
    /\ plCalling' = TRUE
    /\ UNCHANGED <<now, cbVars, rlVars, ldVars, pxVars, gwVars, vmVars, mwVars, rmVars,
                   psVars, seVars, rdVars, plPlugins, plStack, plRan, plCalledNext,
                   plStopped, adVars>>

\* run lines 212-217: past the last plugin it returns; otherwise it takes the
\* plugin at index, advances index and calls the plugin's Execute
Run ==
    /\ plCalling
    /\ plCalling' = FALSE
    /\ IF plIndex >= Len(plPlugins)
       THEN UNCHANGED <<plIndex, plStack, plRan>>
       ELSE LET p == plPlugins[plIndex + 1]
            IN  /\ plIndex' = plIndex + 1
                /\ plStack' = Append(plStack, [id |-> p.id, left |-> p.nexts])
                /\ plRan' = Append(plRan, p.id)
    /\ UNCHANGED <<now, cbVars, rlVars, ldVars, pxVars, gwVars, vmVars, mwVars, rmVars,
                   psVars, seVars, rdVars, plPlugins, plPc, plChainErr, plCalledNext,
                   plStopped, adVars>>

\* the plugin whose Execute is running calls next, which is run
PluginCallsNext ==
    /\ ~plCalling
    /\ plStack # <<>>
    /\ plStack[Len(plStack)].left > 0
    /\ plStack' = [plStack EXCEPT ![Len(plStack)].left = @ - 1]
    /\ plCalledNext' = plCalledNext \cup {plStack[Len(plStack)].id}
    /\ plCalling' = TRUE
    /\ UNCHANGED <<now, cbVars, rlVars, ldVars, pxVars, gwVars, vmVars, mwVars, rmVars,
                   psVars, seVars, rdVars, plPlugins, plPc, plIndex, plChainErr, plRan,
                   plStopped, adVars>>

\* run lines 217-219: chainErr = err when the plugin returned an error
SetChainErr(chainErr, id) == id

\* the plugin whose Execute is running returns, to run, which returns to
\* the plugin that called next or to Execute
PluginReturns ==
    /\ ~plCalling
    /\ plStack # <<>>
    /\ plStack[Len(plStack)].left = 0
    /\ LET id == plStack[Len(plStack)].id
           p == CHOOSE q \in Range(plPlugins) : q.id = id
       IN  /\ plChainErr' = IF p.err THEN SetChainErr(plChainErr, id) ELSE plChainErr
           /\ plStopped' = IF p.err /\ id \notin plCalledNext
                           THEN plStopped \cup {id} ELSE plStopped
    /\ plStack' = SubSeq(plStack, 1, Len(plStack) - 1)
    /\ UNCHANGED <<now, cbVars, rlVars, ldVars, pxVars, gwVars, vmVars, mwVars, rmVars,
                   psVars, seVars, rdVars, plPlugins, plPc, plIndex, plCalling, plRan,
                   plCalledNext, adVars>>

\* Execute line 223: return chainErr
ExecuteReturns ==
    /\ plPc = "running"
    /\ ~plCalling
    /\ plStack = <<>>
    /\ plPc' = "done"
    /\ UNCHANGED <<now, cbVars, rlVars, ldVars, pxVars, gwVars, vmVars, mwVars, rmVars,
                   psVars, seVars, rdVars, plPlugins, plIndex, plChainErr, plStack,
                   plCalling, plRan, plCalledNext, plStopped, adVars>>

\* ------------------------------------------------------------------------
\* Admin API (admin.Server) as wired by main: the loader, the version
\* manager, the router and the upstream manager over shared *Config objects
\* ------------------------------------------------------------------------
AdminClients == 1..2
NilConfig == 0

\* the files the watcher may find
AdminFiles == {Garbage, Yaml(Cfg1), Yaml(Cfg2)}

\* a request body that json.Decode rejects
BadBody == [kind |-> "garbage"]

\* the routes sent to the API
RouteBodies ==
    [Name : {"", "r1", "r3"}, Host : {NoHost}, Paths : {<<>>, <<Exact(PathA)>>},
     Upstream : {"", "A"}]

\* r.PathValue("name")
AdminNames == {"", "r1", "r3"}

NoLocals == [name |-> "", route |-> BadBody, cfg |-> NilConfig, newRoutes |-> <<>>]

\* nothing has been answered
NoAnswer == 0

\* a handler that has returned: writeJSON(w, status, body)
Answered(op, status, body) ==
    [pc |-> "idle", op |-> op, locals |-> NoLocals, status |-> status, body |-> body]

\* a handler between two of its steps
Serving(op, pc, name, route, cfg, newRoutes) ==
    [pc |-> pc, op |-> op,
     locals |-> [name |-> name, route |-> route, cfg |-> cfg, newRoutes |-> newRoutes],
     status |-> NoAnswer, body |-> <<>>]

WatcherIdle == [pc |-> "idle", cfg |-> NilConfig]

RouteNamesOf(routes) == {routes[i].Name : i \in 1..Len(routes)}

\* A request is taken by a client that has none in progress.
Accepts(h) ==
    /\ adHandlers[h].pc = "idle"
    /\ adRequests < MaxAdminRequests
    /\ adRequests' = adRequests + 1

\* main lines 38-61 and setupAdmin: the configuration found at startup is
\* loaded, saved as version 1 and given to the router and the upstream manager.
ADLoaded(cfg) ==
    /\ adHeap = <<cfg>>
    /\ adCurrent = 1
    /\ vmVersions = VMSave(<<>>, 0, NewVersionManager(10), 1, RawData(cfg))
    /\ vmNextVer = 1
    /\ vmIssued = {1}
    /\ routerExact = BuildExact(cfg.Routes)
    /\ routerPrefixes = BuildPrefixes(cfg.Routes)
    /\ upstreams = BuildUpstreams(cfg.Upstreams)
    /\ adRoutesFrom = 1
    /\ adUpstreamsFrom = 1

\* New over a loader that has loaded nothing (TestGetConfig_NoConfig)
ADUnloaded ==
    /\ adHeap = <<>>
    /\ adCurrent = NilConfig
    /\ vmVersions = <<>>
    /\ vmNextVer = 0
    /\ vmIssued = {}
    /\ routerExact = <<>>
    /\ routerPrefixes = <<>>
    /\ upstreams = <<>>
    /\ adRoutesFrom = NilConfig
    /\ adUpstreamsFrom = NilConfig

ADInit ==
    /\ ADUnloaded \/ \E cfg \in {Cfg1, Cfg2} : ADLoaded(cfg)
    /\ vmConfigured = 10
    /\ vmMaxHistory = NewVersionManager(10)
    /\ adminStatus = 0
    /\ adWatcher = WatcherIdle
    /\ adHandlers = [h \in AdminClients |-> Answered("New", NoAnswer, <<>>)]
    /\ adRequests = 0
    /\ adAcked = {}
    /\ exactCfg = Nil /\ prefixesCfg = Nil /\ upstreamsCfg = Nil
    /\ wPc = "idle" /\ wCfg = Nil
    /\ rPc = "idle" /\ rReq = Nil /\ rResult = NoMatch /\ rGroup = NoGroup
    /\ rStatus = 0 /\ rTarget = ""
    /\ rSeen = {} /\ rReads = {}

\* the admin API of a specification that does not use it
ADIdle ==
    /\ adHeap = <<>>
    /\ adCurrent = NilConfig
    /\ adWatcher = WatcherIdle
    /\ adHandlers = [h \in AdminClients |-> Answered("New", NoAnswer, <<>>)]
    /\ adRequests = 0
    /\ adAcked = {}
    /\ adRoutesFrom = NilConfig
    /\ adUpstreamsFrom = NilConfig

\* Router.Reload(routes), called with the routes of the Config p
RouterReload(routes, p) ==
    /\ routerExact' = BuildExact(routes)
    /\ routerPrefixes' = BuildPrefixes(routes)
    /\ adRoutesFrom' = p

\* UpstreamManager.Reload(ups), called with the upstreams of the Config p
UpstreamManagerReload(ups, p) ==
    /\ upstreams' = BuildUpstreams(ups)
    /\ adUpstreamsFrom' = p

Answer(h, op, status, body) ==
    adHandlers' = [adHandlers EXCEPT ![h] = Answered(op, status, body)]

GoTo(h, pc) == adHandlers' = [adHandlers EXCEPT ![h].pc = pc]

\* --- the watcher (Loader.Watch with the callback of main, lines 199-212)
\* Loader.Load of the changed file: a new Config is stored in l.current, or
\* the error is logged
WatchLoad(file) ==
    /\ adWatcher.pc = "idle"
    /\ loadErr' = LoadError(file)
    /\ IF LoadError(file) # ""
       THEN UNCHANGED <<adHeap, adCurrent, adWatcher>>
       ELSE /\ Len(adHeap) < MaxConfigs
            /\ adHeap' = Append(adHeap, file.cfg)
            /\ adCurrent' = Len(adHeap) + 1
            /\ adWatcher' = [pc |-> "routes", cfg |-> Len(adHeap) + 1]
    /\ UNCHANGED <<adHandlers, adRequests, adAcked, adRoutesFrom, adUpstreamsFrom,
                   loaderCurrent, tableVars, watcherVars, requestVars, vmVars,
                   now, cbVars, rlVars, gwVars, mwVars, rmVars, psVars, seVars, rdVars, plVars>>

\* router.Reload(newCfg.Routes), line 201
WatchReloadRoutes ==
    /\ adWatcher.pc = "routes"
    /\ RouterReload(adHeap[adWatcher.cfg].Routes, adWatcher.cfg)
    /\ adWatcher' = [adWatcher EXCEPT !.pc = "upstreams"]
    /\ UNCHANGED <<adHeap, adCurrent, adHandlers, adRequests, adAcked, adUpstreamsFrom,
                   ldVars, upstreams, exactCfg, prefixesCfg, upstreamsCfg, watcherVars,
                   requestVars, vmVars,
                   now, cbVars, rlVars, gwVars, mwVars, rmVars, psVars, seVars, rdVars, plVars>>

\* upstreamMgr.Reload(newCfg.Upstreams), line 202
WatchReloadUpstreams ==
    /\ adWatcher.pc = "upstreams"
    /\ UpstreamManagerReload(adHeap[adWatcher.cfg].Upstreams, adWatcher.cfg)
    /\ adWatcher' = [adWatcher EXCEPT !.pc = "save"]
    /\ UNCHANGED <<adHeap, adCurrent, adHandlers, adRequests, adAcked, adRoutesFrom,
                   ldVars, routerExact, routerPrefixes, exactCfg, prefixesCfg, upstreamsCfg,
                   watcherVars, requestVars, vmVars,
                   now, cbVars, rlVars, gwVars, mwVars, rmVars, psVars, seVars, rdVars, plVars>>

\* versionMgr.Save(newCfg, newRawData), lines 203-208: the entry holds the
\* pointer newCfg
WatchSave ==
    /\ adWatcher.pc = "save"
    /\ vmVersions' = VMSave(vmVersions, vmNextVer, vmMaxHistory, adWatcher.cfg,
                            RawData(adHeap[adWatcher.cfg]))
    /\ vmNextVer' = vmNextVer + 1
    /\ vmIssued' = vmIssued \cup {vmNextVer + 1}
    /\ adWatcher' = WatcherIdle
    /\ UNCHANGED <<adHeap, adCurrent, adHandlers, adRequests, adAcked, adRoutesFrom,
                   adUpstreamsFrom, vmConfigured, vmMaxHistory, adminStatus,
                   ldVars, pxVars,
                   now, cbVars, rlVars, gwVars, mwVars, rmVars, psVars, seVars, rdVars, plVars>>

\* --- GET /api/v1/config and GET /api/v1/routes
\* getConfig: the Config l.current points to, or 503
getConfig(h) ==
    /\ Accepts(h)
    /\ IF adCurrent = NilConfig
       THEN Answer(h, "getConfig", 503, <<>>)
       ELSE Answer(h, "getConfig", 200, adHeap[adCurrent])
    /\ UNCHANGED <<adHeap, adCurrent, adWatcher, adAcked, adRoutesFrom, adUpstreamsFrom,
                   ldVars, pxVars, vmVars,
                   now, cbVars, rlVars, gwVars, mwVars, rmVars, psVars, seVars, rdVars, plVars>>

\* listRoutes: cfg.Routes of l.current; with no configuration cfg is nil, the
\* handler panics and net/http closes the connection without an answer
listRoutes(h) ==
    /\ Accepts(h)
    /\ IF adCurrent = NilConfig
       THEN Answer(h, "listRoutes", NoAnswer, <<>>)
       ELSE Answer(h, "listRoutes", 200, adHeap[adCurrent].Routes)
    /\ UNCHANGED <<adHeap, adCurrent, adWatcher, adAcked, adRoutesFrom, adUpstreamsFrom,
                   ldVars, pxVars, vmVars,
                   now, cbVars, rlVars, gwVars, mwVars, rmVars, psVars, seVars, rdVars, plVars>>

\* --- POST /api/v1/config/rollback
\* rollbackConfig lines 77-83: VersionManager.Rollback under its mutex
rollbackConfigCall(h) ==
    /\ Accepts(h)
    /\ LET r == Rollback(vmVersions, vmNextVer, vmMaxHistory)
       IN  IF r.err # ""
           THEN /\ Answer(h, "rollbackConfig", 400, <<>>)
                /\ UNCHANGED <<vmVersions, vmNextVer, vmIssued>>
           ELSE /\ vmVersions' = r.versions
                /\ vmNextVer' = r.nextVer
                /\ vmIssued' = vmIssued \cup {r.nextVer}
                /\ adHandlers' = [adHandlers EXCEPT ![h] =
                       Serving("rollbackConfig", "routes", "", BadBody, r.cfg, <<>>)]
    /\ UNCHANGED <<adHeap, adCurrent, adWatcher, adAcked, adRoutesFrom, adUpstreamsFrom,
                   vmConfigured, vmMaxHistory, adminStatus, ldVars, pxVars,
                   now, cbVars, rlVars, gwVars, mwVars, rmVars, psVars, seVars, rdVars, plVars>>

\* rollbackConfig line 84: s.router.Reload(cfg.Routes)
rollbackConfigRoutes(h) ==
    /\ adHandlers[h].op = "rollbackConfig"
    /\ adHandlers[h].pc = "routes"
    /\ RouterReload(adHeap[adHandlers[h].locals.cfg].Routes, adHandlers[h].locals.cfg)
    /\ GoTo(h, "upstreams")
    /\ UNCHANGED <<adHeap, adCurrent, adWatcher, adRequests, adAcked, adUpstreamsFrom,
                   ldVars, upstreams, exactCfg, prefixesCfg, upstreamsCfg, watcherVars,
                   requestVars, vmVars,
                   now, cbVars, rlVars, gwVars, mwVars, rmVars, psVars, seVars, rdVars, plVars>>

\* rollbackConfig lines 85-88: s.upstreamMgr.Reload(cfg.Upstreams) and 200
rollbackConfigUpstreams(h) ==
    /\ adHandlers[h].op = "rollbackConfig"
    /\ adHandlers[h].pc = "upstreams"
    /\ UpstreamManagerReload(adHeap[adHandlers[h].locals.cfg].Upstreams,
                             adHandlers[h].locals.cfg)
    /\ Answer(h, "rollbackConfig", 200, <<>>)
    /\ UNCHANGED <<adHeap, adCurrent, adWatcher, adRequests, adAcked, adRoutesFrom,
                   ldVars, routerExact, routerPrefixes, exactCfg, prefixesCfg, upstreamsCfg,
                   watcherVars, requestVars, vmVars,
                   now, cbVars, rlVars, gwVars, mwVars, rmVars, psVars, seVars, rdVars, plVars>>

\* --- POST /api/v1/routes, PUT and DELETE /api/v1/routes/{name}
\* what the handlers leave alone while they read and write cfg.Routes
EditUnchanged ==
    UNCHANGED <<adCurrent, adWatcher, adRoutesFrom, adUpstreamsFrom,
                ldVars, pxVars, vmVars,
                now, cbVars, rlVars, gwVars, mwVars, rmVars, psVars, seVars, rdVars, plVars>>

\* publishRoute lines 337-360: the body is decoded and checked, then
\* cfg := s.configLoader.Current()
publishRoute(h, body) ==
    /\ Accepts(h)
    /\ IF body = BadBody \/ body.Name = "" \/ body.Upstream = "" \/ Len(body.Paths) = 0
       THEN Answer(h, "publishRoute", 400, <<>>)
       ELSE IF adCurrent = NilConfig
       THEN Answer(h, "publishRoute", 503, <<>>)
       ELSE adHandlers' = [adHandlers EXCEPT ![h] =
                Serving("publishRoute", "check", body.Name, body, adCurrent, <<>>)]
    /\ UNCHANGED <<adHeap, adAcked>>
    /\ EditUnchanged

\* publishRoute lines 363-368: the loop over cfg.Routes that looks for the name
publishRouteCheck(h) ==
    /\ adHandlers[h].op = "publishRoute"
    /\ adHandlers[h].pc = "check"
    /\ IF adHandlers[h].locals.name \in RouteNamesOf(adHeap[adHandlers[h].locals.cfg].Routes)
       THEN Answer(h, "publishRoute", 409, <<>>)
       ELSE GoTo(h, "copy")
    /\ UNCHANGED <<adHeap, adAcked, adRequests>>
    /\ EditUnchanged

\* publishRoute lines 371-373: newRoutes is cfg.Routes as it is now, and the
\* new route
publishRouteCopy(h) ==
    /\ adHandlers[h].op = "publishRoute"
    /\ adHandlers[h].pc = "copy"
    /\ adHandlers' = [adHandlers EXCEPT
           ![h].pc = "store",
           ![h].locals.newRoutes =
               Append(adHeap[adHandlers[h].locals.cfg].Routes, adHandlers[h].locals.route)]
    /\ UNCHANGED <<adHeap, adAcked, adRequests>>
    /\ EditUnchanged

\* updateRoute lines 382-408
updateRoute(h, name, body) ==
    /\ Accepts(h)
    /\ IF name = "" \/ body = BadBody \/ body.Upstream = "" \/ Len(body.Paths) = 0
       THEN Answer(h, "updateRoute", 400, <<>>)
       ELSE IF adCurrent = NilConfig
       THEN Answer(h, "updateRoute", 503, <<>>)
       ELSE adHandlers' = [adHandlers EXCEPT ![h] =
                Serving("updateRoute", "replace", name, [body EXCEPT !.Name = name],
                        adCurrent, <<>>)]
    /\ UNCHANGED <<adHeap, adAcked>>
    /\ EditUnchanged

\* the first index of the route called name
IndexOfRoute(routes, name) ==
    CHOOSE i \in 1..Len(routes) :
        routes[i].Name = name /\ \A j \in 1..(i - 1) : routes[j].Name # name

\* updateRoute lines 410-422: cfg.Routes[i] = route, written into the slice
\* the Config holds
updateRouteReplace(h) ==
    /\ adHandlers[h].op = "updateRoute"
    /\ adHandlers[h].pc = "replace"
    /\ LET l == adHandlers[h].locals
           routes == adHeap[l.cfg].Routes
       IN  IF l.name \in RouteNamesOf(routes)
           THEN /\ adHeap' = [adHeap EXCEPT ![l.cfg].Routes[IndexOfRoute(routes, l.name)] =
                                  l.route]
                /\ GoTo(h, "reload")
           ELSE /\ Answer(h, "updateRoute", 404, <<>>)
                /\ UNCHANGED adHeap
    /\ UNCHANGED <<adAcked, adRequests>>
    /\ EditUnchanged

\* deleteRoute lines 430-440
deleteRoute(h, name) ==
    /\ Accepts(h)
    /\ IF name = ""
       THEN Answer(h, "deleteRoute", 400, <<>>)
       ELSE IF adCurrent = NilConfig
       THEN Answer(h, "deleteRoute", 503, <<>>)
       ELSE adHandlers' = [adHandlers EXCEPT ![h] =
                Serving("deleteRoute", "filter", name, BadBody, adCurrent, <<>>)]
    /\ UNCHANGED <<adHeap, adAcked>>
    /\ EditUnchanged

\* deleteRoute lines 442-455: newRoutes is cfg.Routes as it is now, without
\* the routes called name
deleteRouteFilter(h) ==
    /\ adHandlers[h].op = "deleteRoute"
    /\ adHandlers[h].pc = "filter"
    /\ LET l == adHandlers[h].locals
           routes == adHeap[l.cfg].Routes
           keep(r) == r.Name # l.name
       IN  IF l.name \in RouteNamesOf(routes)
           THEN adHandlers' = [adHandlers EXCEPT
                    ![h].pc = "store", ![h].locals.newRoutes = SelectSeq(routes, keep)]
           ELSE Answer(h, "deleteRoute", 404, <<>>)
    /\ UNCHANGED <<adHeap, adAcked, adRequests>>
    /\ EditUnchanged

\* publishRoute line 374 and deleteRoute line 457: cfg.Routes = newRoutes
StoreRoutes(h) ==
    /\ adHandlers[h].pc = "store"
    /\ adHeap' = [adHeap EXCEPT ![adHandlers[h].locals.cfg].Routes =
                      adHandlers[h].locals.newRoutes]
    /\ GoTo(h, "reload")
    /\ UNCHANGED <<adAcked, adRequests>>
    /\ EditUnchanged

\* 201 of publishRoute, 200 of updateRoute and deleteRoute
SuccessStatus(op) == IF op = "publishRoute" THEN 201 ELSE 200

\* publishRoute lines 375-377, updateRoute lines 424-425 and deleteRoute lines
\* 458-459: s.router.Reload(cfg.Routes) and the answer
ReloadAndAnswer(h) ==
    /\ adHandlers[h].pc = "reload"
    /\ LET l == adHandlers[h].locals
           op == adHandlers[h].op
       IN  /\ RouterReload(adHeap[l.cfg].Routes, l.cfg)
           /\ Answer(h, op, SuccessStatus(op), <<>>)
           /\ adAcked' = adAcked \cup {[op |-> op, name |-> l.name, route |-> l.route]}
    /\ UNCHANGED <<adHeap, adCurrent, adWatcher, adRequests, adUpstreamsFrom,
                   ldVars, upstreams, exactCfg, prefixesCfg, upstreamsCfg, watcherVars,
                   requestVars, vmVars,
                   now, cbVars, rlVars, gwVars, mwVars, rmVars, psVars, seVars, rdVars, plVars>>

InitAdmin == now = 0 /\ CBIdle /\ RLIdle /\ LoaderInit /\ GatewayInit /\ MWIdle /\ RMIdle /\ PSIdle /\ SEIdle /\ RDIdle /\ PLIdle /\ ADInit

NextAdmin ==
    \/ \E file \in AdminFiles : WatchLoad(file)
    \/ WatchReloadRoutes
    \/ WatchReloadUpstreams
    \/ WatchSave
    \/ \E h \in AdminClients : getConfig(h)
    \/ \E h \in AdminClients : listRoutes(h)
    \/ \E h \in AdminClients : rollbackConfigCall(h)
    \/ \E h \in AdminClients : rollbackConfigRoutes(h)
    \/ \E h \in AdminClients : rollbackConfigUpstreams(h)
    \/ \E h \in AdminClients, body \in RouteBodies \cup {BadBody} : publishRoute(h, body)
    \/ \E h \in AdminClients : publishRouteCheck(h)
    \/ \E h \in AdminClients : publishRouteCopy(h)
    \/ \E h \in AdminClients, name \in AdminNames, body \in RouteBodies \cup {BadBody} :
          updateRoute(h, name, body)
    \/ \E h \in AdminClients : updateRouteReplace(h)
    \/ \E h \in AdminClients, name \in AdminNames : deleteRoute(h, name)
    \/ \E h \in AdminClients : deleteRouteFilter(h)
    \/ \E h \in AdminClients : StoreRoutes(h)
    \/ \E h \in AdminClients : ReloadAndAnswer(h)

SpecAdmin == InitAdmin /\ [][NextAdmin]_vars

\* ------------------------------------------------------------------------
\* Specifications
\* ------------------------------------------------------------------------
\* The instants an interval of length window that ends at t or later holds.
Recent(t) == {u \in 0..MaxTime : u > t - rlWindow}

RLTick ==
    /\ Tick
    /\ admitLog' = [k \in Keys |-> [t \in 0..MaxTime |->
                        IF t \in Recent(now + 1) THEN admitLog[k][t] ELSE 0]]
    /\ UNCHANGED <<cbVars, rlRate, rlWindow, shards, rlKey, rlResult, rlCalls,
                   freshCalls, afterDenial, ldVars, pxVars, gwVars, vmVars, mwVars, rmVars, psVars, seVars, rdVars, plVars, adVars>>

InitRL == now = 0 /\ RLInit /\ CBIdle /\ LoaderInit /\ ProxyIdle /\ GatewayInit /\ VMIdle /\ MWIdle /\ RMIdle /\ PSIdle /\ SEIdle /\ RDIdle /\ PLIdle /\ ADIdle

NextRL == RLAllowAny \/ RLTick

SpecRL == InitRL /\ [][NextRL]_vars

CBTick == Tick /\ UNCHANGED <<cbVars, rlVars, ldVars, pxVars, gwVars, vmVars, mwVars, rmVars, psVars, seVars, rdVars, plVars, adVars>>

InitCB == now = 0 /\ CBInit /\ RLIdle /\ LoaderInit /\ ProxyIdle /\ GatewayInit /\ VMIdle /\ MWIdle /\ RMIdle /\ PSIdle /\ SEIdle /\ RDIdle /\ PLIdle /\ ADIdle

NextCB == Allow \/ RecordSuccess \/ RecordFailure \/ CBTick

SpecCB == InitCB /\ [][NextCB]_vars

InitProxy == now = 0 /\ CBIdle /\ RLIdle /\ ProxyInit /\ GatewayInit /\ VMIdle /\ MWIdle /\ RMIdle /\ PSIdle /\ SEIdle /\ RDIdle /\ PLIdle /\ ADIdle

NextProxy ==
    \/ \E file \in Files : WatcherLoad(file)
    \/ ReloadStoreExact
    \/ ReloadStorePrefixes
    \/ UpstreamReload
    \/ \E req \in ProxyRequests : ProxyMatchExact(req)
    \/ ProxyMatchPrefixes
    \/ ProxyGetGroup
    \/ ProxyPickTarget

SpecProxy == InitProxy /\ [][NextProxy]_vars

InitGateway == now = 0 /\ CBIdle /\ RLIdle /\ LoaderInit /\ ProxyIdle /\ GatewayInit /\ VMIdle /\ MWIdle /\ RMIdle /\ PSIdle /\ SEIdle /\ RDIdle /\ PLIdle /\ ADIdle

NextGateway ==
    \/ \E file \in Files : Load(file)
    \/ \E p \in Publishers : CompileStep(p)
    \/ \E p \in Publishers : StoreStep(p)
    \/ \E req \in GatewayRequests : GatewayEnter(req)
    \/ GatewayLoad
    \/ GatewayRoute
    \/ GatewayDispatch

SpecGateway == InitGateway /\ [][NextGateway]_vars

InitVersions == now = 0 /\ CBIdle /\ RLIdle /\ LoaderInit /\ ProxyIdle /\ GatewayInit
                /\ VMInit /\ MWIdle /\ RMIdle /\ PSIdle /\ SEIdle /\ RDIdle /\ PLIdle /\ ADIdle

NextVersions ==
    \/ \E file \in VersionFiles : OnChange(file)
    \/ rollbackConfig

SpecVersions == InitVersions /\ [][NextVersions]_vars

InitChain == now = 0 /\ CBIdle /\ RLIdle /\ LoaderInit /\ ProxyIdle /\ GatewayInit
             /\ VMIdle /\ MWInit /\ RMIdle /\ PSIdle /\ SEIdle /\ RDIdle /\ PLIdle /\ ADIdle

NextChain ==
    \/ ServeMiddleware
    \/ ServeHandler
    \/ ReturnToMiddleware
    \/ ServeReversed

SpecChain == InitChain /\ [][NextChain]_vars

InitRateLimit == now = 0 /\ RLInit /\ CBIdle /\ LoaderInit /\ ProxyIdle /\ GatewayInit
                 /\ VMIdle /\ MWIdle /\ RMInit /\ PSIdle /\ SEIdle /\ RDIdle /\ PLIdle /\ ADIdle

NextRateLimit ==
    \/ \E remoteAddr \in RemoteAddrs : RateLimitServe(remoteAddr)
    \/ RLTick

SpecRateLimit == InitRateLimit /\ [][NextRateLimit]_vars

InitPaths == now = 0 /\ CBIdle /\ RLIdle /\ LoaderInit /\ ProxyIdle /\ GatewayInit
             /\ VMIdle /\ MWIdle /\ RMIdle /\ PSInit /\ SEIdle /\ RDIdle /\ PLIdle /\ ADIdle

NextPaths == RouterMatch \/ IndexMatch \/ StripPrefixApply

SpecPaths == InitPaths /\ [][NextPaths]_vars

InitSelect == now = 0 /\ CBIdle /\ RLIdle /\ LoaderInit /\ ProxyIdle /\ GatewayInit
              /\ VMIdle /\ MWIdle /\ RMIdle /\ PSIdle /\ SEInit /\ RDIdle /\ PLIdle /\ ADIdle

NextSelect ==
    \/ \E p \in Selectors : SelectAdd(p)
    \/ \E p \in Selectors : SelectReturn(p)
    \/ \E ep \in Range(seEndpoints), healthy \in BOOLEAN : Mark(ep, healthy)

SpecSelect == InitSelect /\ [][NextSelect]_vars

InitReady == now = 0 /\ CBIdle /\ RLIdle /\ LoaderInit /\ ProxyIdle /\ GatewayInit
             /\ VMIdle /\ MWIdle /\ RMIdle /\ PSIdle /\ SEIdle /\ RDInit /\ PLIdle /\ ADIdle

NextReady ==
    \/ InstallSnapshot
    \/ StartTLS
    \/ StartServer
    \/ GoSetReady
    \/ GoListenAndServe
    \/ BeginShutdown
    \/ ShutdownTLS
    \/ ShutdownSrv
    \/ \E s \in Servers : Readyz(s)
    \/ ShutdownTick
    \/ TLSShutdownReturns
    \/ SrvShutdownReturns
    \/ \E s \in Servers : Accept(s)
    \/ \E s \in Servers : Complete(s)

InitPlugins == now = 0 /\ CBIdle /\ RLIdle /\ LoaderInit /\ ProxyIdle /\ GatewayInit
               /\ VMIdle /\ MWIdle /\ RMIdle /\ PSIdle /\ SEIdle /\ RDIdle /\ PLInit /\ ADIdle

NextPlugins == ExecuteBegin \/ Run \/ PluginCallsNext \/ PluginReturns \/ ExecuteReturns

SpecPlugins == InitPlugins /\ [][NextPlugins]_vars

SpecReady == InitReady /\ [][NextReady]_vars

\* main runs on once the signal has arrived, and time passes
SpecShutdown ==
    /\ SpecReady
    /\ WF_vars(ShutdownTLS) /\ WF_vars(TLSShutdownReturns)
    /\ WF_vars(ShutdownSrv) /\ WF_vars(SrvShutdownReturns)
    /\ WF_vars(ShutdownTick)

\* ------------------------------------------------------------------------
\* Claims about the circuit breaker (checked under SpecCB)
\* ------------------------------------------------------------------------

\* C1: after every Allow, RecordSuccess and RecordFailure the breaker's state
\* is the one the transition table of section 4.3 gives, and a step that is
\* not one of these events (the clock advancing) leaves the state alone.
C1_StateFollowsTable ==
    [][ /\ cbState' = refState'
        /\ (now' # now => cbState' = cbState) ]_vars

\* C8: counting RecordFailure calls from a breaker reset in Closed, the
\* breaker is still Closed below failure_threshold calls and Open right after
\* the failure_threshold-th.
C8_ThresholdBoundary ==
    /\ (streak >= 0 /\ streak < failureThreshold) => cbState = StateClosed
    /\ (streak = failureThreshold /\ cbEvent = "RecordFailure") => cbState = StateOpen

C8_Witness ==
    /\ failureThreshold = 2
    /\ streak = 2
    /\ cbEvent = "RecordFailure"
    /\ cbState = StateOpen

\* C9: an Allow on an Open breaker less than open_timeout after the last
\* recorded failure returns false and leaves the breaker Open.
C9_OpenDenies ==
    [][ (Allow /\ cbState = StateOpen /\ now - lastFailure < cbTimeout)
          => (cbAdmit' = FALSE /\ cbState' = StateOpen) ]_vars

C9_Witness ==
    /\ cbEvent = "Allow"
    /\ cbState = StateOpen
    /\ cbAdmit = FALSE
    /\ now - lastFailure < cbTimeout
    /\ now > lastFailure

\* C10: an Allow on an Open breaker at least open_timeout after the last
\* failure moves it to HalfOpen, is admitted, and resets success_count to 0.
C10_ProbeResetsSuccessCount ==
    [][ (Allow /\ cbState = StateOpen /\ now - lastFailure >= cbTimeout)
          => (cbState' = StateHalfOpen /\ cbAdmit' = TRUE /\ successCount' = 0) ]_vars

\* ------------------------------------------------------------------------
\* Claims about the rate limiter (checked under SpecRL)
\* ------------------------------------------------------------------------
RECURSIVE AdmittedIn(_, _, _)
\* The number of Allow(k) calls that returned true at the instants a..b.
AdmittedIn(k, a, b) ==
    IF a > b THEN 0 ELSE admitLog[k][a] + AdmittedIn(k, a + 1, b)

\* The instants of the interval of length window that starts at a.
IntervalEnd(a) == IF a + rlWindow - 1 > MaxTime THEN MaxTime ELSE a + rlWindow - 1

\* The windows the limiter holds for key k (none or one).
WindowsOf(k) ==
    IF k \in DOMAIN shards[getShard(k)] THEN {shards[getShard(k)][k]} ELSE {}

\* C2 (as claimed): for every key, the Allow calls that return true within
\* any time interval of length window number at most rate.
C2_AtMostRatePerInterval ==
    \A k \in Keys : \A a \in 0..MaxTime :
        AdmittedIn(k, a, IntervalEnd(a)) <= rlRate

\* C2 (amended): for every key, a counting window (from its start to its
\* roll-over) admits at most rate calls, and the calls admitted within any
\* time interval of length window number at most 2 * rate.
C2_AtMostRatePerCountingWindow ==
    \A k \in Keys :
        /\ \A w \in WindowsOf(k) : w.count <= rlRate /\ w.prevCount <= rlRate
        /\ \A a \in 0..MaxTime : AdmittedIn(k, a, IntervalEnd(a)) <= 2 * rlRate

\* A key that was just admitted and has more than rate admitted calls within
\* one interval of length window.
C2_Witness ==
    /\ rlKey \in Keys
    /\ rlResult = TRUE
    /\ \E a \in 0..MaxTime : AdmittedIn(rlKey, a, IntervalEnd(a)) > rlRate

\* ------------------------------------------------------------------------
\* Claims about the route table and the proxy (checked under SpecProxy)
\* ------------------------------------------------------------------------

\* C3: a match that runs while a reload publishes new tables returns what
\* one whole configuration gives for the request: the result is the result
\* of matching against one of the configurations that were current during
\* the match, never a combination of two.
C3_MatchFromOneSnapshot ==
    rPc \in {"matched", "target", "done"} =>
        rResult \in {MatchIn(c, rReq) : c \in rSeen}

\* C7: a request that has completed read all the data it used (exact map,
\* prefix list, upstream group) from one configuration.
C7_SingleSnapshotPerRequest ==
    rPc = "done" => Cardinality(rReads) <= 1

\* ------------------------------------------------------------------------
\* Claims about the compiled configuration (checked under SpecGateway)
\* ------------------------------------------------------------------------

\* the files Load returns an error for
FailingFiles == {f \in Files : f.kind # "yaml" \/ ~Validate(f.cfg)}

\* C4: a Load that fails (read, parse or validate) leaves the loader's
\* configuration and the stored snapshot as they were and returns an error;
\* a CompileAndStore whose compilation fails leaves the stored snapshot and
\* the configuration as they were and returns an error to its caller.
C4_FailureKeepsSnapshot ==
    [][ /\ \A f \in FailingFiles :
              Load(f) =>
                  /\ loaderCurrent' = loaderCurrent
                  /\ gwStore' = gwStore
                  /\ loadErr' # ""
        /\ \A p \in Publishers :
              (pubPc[p] = "idle" /\ loaderCurrent # Nil
                 /\ CompileError(loaderCurrent) # "" /\ CompileStep(p)) =>
                  /\ gwStore' = gwStore
                  /\ loaderCurrent' = loaderCurrent
                  /\ pubErr'[p] # ""
                  /\ pubPc'[p] = "idle" ]_vars

\* a snapshot is published, a later compilation has failed and a later load
\* has failed
C4_Witness ==
    /\ gwStore # Nil
    /\ loaderCurrent = CfgBadFilter
    /\ pubErr["watcher"] # ""
    /\ loadErr # ""

\* C5: in the stored snapshot every request matches no route or a route
\* whose cluster is in the snapshot's cluster map.
C5_MatchedClusterExists ==
    gwStore # Nil =>
        \A req \in GatewayRequests :
            LET m == RouterIndexMatch(gwStore, req)
            IN  m.matched => m.route.ClusterName \in DOMAIN gwStore.Clusters

\* C6: a request that entered after the k-th store completed holds the
\* snapshot of the k-th store or of a later one; it finds the store empty
\* only when it entered before the first store.
C6_LaterMatchSeesPublished ==
    gPc \in {"route", "dispatch", "done"} =>
        IF gCfg = Nil THEN gEntry = 0
        ELSE \E j \in 1..Len(pubLog) : j >= gEntry /\ pubLog[j] = gCfg.Version

\* two callers have stored, the later store holding the older version, and
\* a request that entered afterwards holds the snapshot stored last
C6_Witness ==
    /\ pubLog = <<2, 1>>
    /\ gPc = "route"
    /\ gEntry = 2
    /\ gCfg.Version = 1

\* ------------------------------------------------------------------------
\* Further claims about the circuit breaker (checked under SpecCB)
\* ------------------------------------------------------------------------

\* C11: a RecordSuccess in HalfOpen that brings success_count to
\* success_threshold closes the breaker with failure_count and success_count
\* at zero; a RecordSuccess that leaves success_count below the threshold
\* counts the success and leaves the breaker HalfOpen.
C11_SuccessThresholdCloses ==
    [][ (RecordSuccess /\ cbState = StateHalfOpen) =>
            IF successCount + 1 >= successThreshold
            THEN cbState' = StateClosed /\ failureCount' = 0 /\ successCount' = 0
            ELSE cbState' = StateHalfOpen /\ successCount' = successCount + 1 ]_vars

\* the second success of a breaker with success_threshold 2 has closed it
C11_Witness ==
    /\ successThreshold = 2
    /\ cbEvent = "RecordSuccess"
    /\ cbCallback = <<StateHalfOpen, StateClosed>>
    /\ cbState = StateClosed
    /\ failureCount = 0
    /\ successCount = 0

\* C12: an operation that changes the state calls the state-change callback
\* once with (from, to), from # to, and an operation that leaves the state
\* as it is does not call it.
C12_CallbackOnlyOnRealTransition ==
    [][ (Allow \/ RecordSuccess \/ RecordFailure) =>
            IF cbState' # cbState
            THEN cbCallback' = <<cbState, cbState'>>
            ELSE cbCallback' = NoCallback ]_vars

\* ------------------------------------------------------------------------
\* Further claims about the rate limiter (checked under SpecRL)
\* ------------------------------------------------------------------------

\* C13: the n-th Allow call of a key inside the key's first window returns
\* true when n <= rate and false when n = rate + 1.
C13_FreshWindowBoundary ==
    (rlKey \in Keys /\ freshCalls[rlKey] >= 1 /\ freshCalls[rlKey] <= rlRate + 1) =>
        (rlResult = (freshCalls[rlKey] <= rlRate))

\* the call after the rate-th call of a rate-3 limiter's first window was
\* denied
C13_Witness ==
    /\ rlRate = 3
    /\ rlKey \in Keys
    /\ freshCalls[rlKey] = 4
    /\ rlResult = FALSE

\* ------------------------------------------------------------------------
\* Further claims about the compiled configuration (checked under SpecGateway)
\* ------------------------------------------------------------------------

\* two routes are indexed under one exact key
DuplicateExactKey(routes) ==
    \E i, j \in 1..Len(routes) : i < j /\ ExactKeys(routes[i]) \cap ExactKeys(routes[j]) # {}

\* C14: a CompileAndStore of a configuration in which two routes share an
\* exact key returns an error to its caller and leaves the stored snapshot
\* as it was, with no store to follow.
C14_DuplicateExactKeyRejected ==
    [][ \A p \in Publishers :
            (CompileStep(p) /\ DuplicateExactKey(loaderCurrent.RoutesV2)) =>
                /\ pubErr'[p] # ""
                /\ pubPc'[p] = "idle"
                /\ gwStore' = gwStore ]_vars

\* C15: every snapshot that becomes current carries a larger version than
\* the snapshot it replaces, also when two callers of CompileAndStore run
\* at the same time.
C15_PublishedVersionsIncrease ==
    [][ \A p \in Publishers :
            (pubPc[p] = "store" /\ gwStore # Nil /\ StoreStep(p)) =>
                gwStore'.Version > gwStore.Version ]_vars

\* ------------------------------------------------------------------------
\* Claims about the configuration versions (checked under SpecVersions)
\* ------------------------------------------------------------------------

\* C16: a rollback with at least two versions stored appends one entry that
\* carries the configuration of the former second-to-last entry and a
\* version number above every number in the history; that configuration is
\* then the current one and the one the router and the upstream manager
\* serve, and every other entry of the new history is an entry of the old
\* one, unchanged and in the same order.
C16_RollbackAppendsPrevious ==
    [][ (Len(vmVersions) >= 2 /\ rollbackConfig) =>
            LET old == Len(vmVersions)
                new == Len(vmVersions')
                prev == vmVersions[old - 1]
            IN  /\ new >= 1
                /\ vmVersions'[new].Config = prev.Config
                /\ \A i \in 1..old : vmVersions'[new].Version > vmVersions[i].Version
                /\ Current(vmVersions').Config = prev.Config
                /\ exactCfg' = prev.Config /\ upstreamsCfg' = prev.Config
                /\ adminStatus' = 200
                /\ \A i \in 1..(new - 1) : vmVersions'[i] = vmVersions[old - (new - 1) + i]
      ]_vars

\* a rollback has brought back a configuration that differs from the one
\* saved last
C16_Witness ==
    /\ adminStatus = 200
    /\ Len(vmVersions) >= 3
    /\ vmVersions[Len(vmVersions)].Config = vmVersions[Len(vmVersions) - 2].Config
    /\ vmVersions[Len(vmVersions)].Config # vmVersions[Len(vmVersions) - 1].Config
    /\ loaderCurrent = vmVersions[Len(vmVersions) - 1].Config
    /\ exactCfg = vmVersions[Len(vmVersions)].Config

\* C17: after every Save and Rollback the version numbers List returns are
\* strictly increasing from the oldest entry to the newest, and the number
\* of an entry that was just appended was never given to an entry before.
C17_VersionsIncreaseNeverReused ==
    [][ /\ \A i, j \in 1..Len(vmVersions') :
              i < j => List(vmVersions')[i] < List(vmVersions')[j]
        /\ (vmNextVer' # vmNextVer) => Latest(vmVersions').Version \notin vmIssued
      ]_vars

\* saves and a rollback have filled a history whose oldest entries are gone
C17_Witness ==
    /\ Len(vmVersions) = 2
    /\ vmMaxHistory = 2
    /\ adminStatus = 200
    /\ List(vmVersions) = <<4, 5>>
    /\ vmIssued = 1..5

\* C18: the history bound is the configured value, or 10 when that value is
\* zero or negative; the history never holds more entries than the bound;
\* and a Save or Rollback that appends to a history leaves the newest
\* entries: the appended one last, before it the newest of the old history
\* in their order, as many as the bound allows.
C18_HistoryBounded ==
    [][ /\ vmMaxHistory' = (IF vmConfigured' <= 0 THEN 10 ELSE vmConfigured')
        /\ Len(vmVersions') <= vmMaxHistory'
        /\ (vmNextVer' # vmNextVer) =>
              LET old == Len(vmVersions)
                  new == Len(vmVersions')
              IN  /\ new = (IF old + 1 > vmMaxHistory THEN vmMaxHistory ELSE old + 1)
                  /\ vmVersions'[new].Version = vmNextVer'
                  /\ \A i \in 1..(new - 1) : vmVersions'[i] = vmVersions[old - (new - 1) + i]
      ]_vars

\* a manager built with 0 has kept ten entries and dropped the first
C18_Witness ==
    /\ vmConfigured = 0
    /\ Len(vmVersions) = 10
    /\ vmVersions[1].Version = 2
    /\ vmVersions[10].Version = 11

\* C19: rollbackConfig with fewer than two versions stored answers 400 and
\* leaves the history, the version counter, the router's tables and the
\* upstream manager's groups as they were.
C19_RollbackWithoutPreviousFails ==
    [][ (Len(vmVersions) < 2 /\ rollbackConfig) =>
            /\ adminStatus' = 400
            /\ vmVersions' = vmVersions
            /\ vmNextVer' = vmNextVer
            /\ routerExact' = routerExact
            /\ routerPrefixes' = routerPrefixes
            /\ upstreams' = upstreams
      ]_vars

\* a rollback was refused with one version stored and a configuration served
C19_Witness ==
    /\ adminStatus = 400
    /\ Len(vmVersions) = 1
    /\ vmMaxHistory > 1
    /\ exactCfg = vmVersions[1].Config
    /\ routerPrefixes # <<>>

\* ------------------------------------------------------------------------
\* Claims about the middleware chain (checked under SpecChain)
\* ------------------------------------------------------------------------
\* every middleware of the list calls next and the handler returns
RunsThrough ==
    (\A i \in 1..Len(mwList) : mwList[i].kind = "next") /\ mwHandler.does = "return"

\* the chain has returned to its caller
ChainDone == mwCur.kind = "returned" /\ mwStack = <<>>

\* C20: the code before next runs in the order of the list given to Chain,
\* starting with the first middleware, and the code after next runs in the
\* reverse order of the middlewares that are waiting for next; when every
\* middleware calls next and the handler returns, all of them run, the
\* trace after the handler is the exact reverse of the trace before it, and
\* the chain of the reversed list gives the reverse of both traces.
C20_ChainOrder ==
    /\ mwPre = SubSeq(Names(Served), 1, Len(mwPre))
    /\ \A i, j \in 1..Len(mwPost) :
          i < j => \E a, b \in 1..Len(mwPre) :
                      a > b /\ mwPre[a] = mwPost[i] /\ mwPre[b] = mwPost[j]
    /\ (RunsThrough /\ ChainDone) =>
          /\ mwPre = Names(Served)
          /\ mwPost = Reverse(mwPre)
          /\ mwStatus = 200
    /\ (RunsThrough /\ ChainDone /\ mwRun = "reversed") =>
          /\ mwPre = Reverse(mwDeclaredPre)
          /\ mwPost = Reverse(mwDeclaredPost)

\* three middlewares have run around the handler, in both orders
C20_Witness ==
    /\ RunsThrough /\ ChainDone /\ mwRun = "reversed"
    /\ mwDeclaredPre = <<2, 3, 1>>
    /\ mwDeclaredPost = <<1, 3, 2>>
    /\ mwPre = <<1, 3, 2>>
    /\ mwPost = <<2, 3, 1>>

\* a middleware panics in this step: before it calls next, or after next
\* has returned to it
MiddlewarePanics ==
    \/ mwCur.kind = "wrapped" /\ mwCur.mw.kind = "panic" /\ ServeMiddleware
    \/ /\ mwCur.kind = "returned" /\ mwStack # <<>>
       /\ KindOf(mwStack[Len(mwStack)]) = "panicAfter"
       /\ ReturnToMiddleware

\* C21 as stated: a panic of a middleware gives the response the status 500
\* and does not leave the chain.
C21_MiddlewarePanicGives500 ==
    [][ MiddlewarePanics => (mwStatus' = 500 /\ ~mwEscaped') ]_vars

\* C21, amended: a panic of a middleware does not leave the chain, control
\* returns to the caller of the panicking middleware, and the response gets
\* the status 500 when nothing of it had been written before the panic; a
\* status written before stays.
C21_MiddlewarePanicRecovered ==
    [][ MiddlewarePanics =>
            /\ ~mwEscaped'
            /\ mwCur' = Returned
            /\ mwStatus' = (IF mwStatus = 0 THEN 500 ELSE mwStatus) ]_vars

\* the second middleware of three has panicked before anything was written:
\* the response is 500 and the first middleware's code after next has run
C21_Witness ==
    /\ ChainDone /\ mwRun = "declared"
    /\ Len(mwList) = 3
    /\ mwList[1].kind = "next" /\ mwList[2].kind = "panic"
    /\ mwStatus = 500
    /\ mwPost = <<mwList[1].name>>
    /\ ~mwEscaped

\* C22: when the terminal handler is reached and panics, the chain returns to its caller
\* without the panic and the response has the status 500, for every list of
\* middlewares given to Chain, the empty list included.
C22_HandlerPanicGives500 ==
    (ChainDone /\ mwHandler.does = "panic"
        /\ \A i \in 1..Len(mwList) : mwList[i].kind \in {"next", "panicAfter"})
      => (~mwEscaped /\ mwStatus = 500)

\* what the handler that is being served writes before it panics
WrittenBeforePanic ==
    IF mwCur.kind = "handler" /\ mwCur.does = "writeThenPanic"
    THEN [status |-> WriteHeader(mwStatus, 200), body |-> Append(mwBody, "ok")]
    ELSE Response

\* C23: a recovery writes the status 500 and the error text when nothing of
\* the response had been written at the panic, and writes nothing onto a
\* response that had been started.
C23_RecoveryWritesOnlyIfNotStarted ==
    [][ (mwRecovered' = mwRecovered + 1) =>
            IF WrittenBeforePanic.status = 0
            THEN mwStatus' = 500 /\ mwBody' = <<InternalServerError>>
            ELSE mwStatus' = WrittenBeforePanic.status /\ mwBody' = WrittenBeforePanic.body
      ]_vars

\* ------------------------------------------------------------------------
\* Claims about the rate-limit middleware (checked under SpecRateLimit)
\* ------------------------------------------------------------------------

\* C24: the middleware passes a request to next exactly when Allow admits
\* the key of the request; an admitted request gets the answer of next
\* (200), a denied one gets 429 with Retry-After 60 and next is not called;
\* and the first rate + 1 requests of a remote address, made within its
\* first window, are answered 200 rate times and then 429.
C24_PassExactlyWhenAdmitted ==
    /\ rmStatus # 0 =>
          /\ rmNextCalled = rlResult
          /\ rlResult => (rmStatus = 200 /\ rmRetryAfter = "")
          /\ ~rlResult => (rmStatus = 429 /\ rmRetryAfter = "60")
    /\ \A a \in RemoteAddrs :
          (freshCalls[a] >= 1 /\ freshCalls[a] = Len(rmLog[a]) /\ freshCalls[a] <= rlRate + 2) =>
              \A i \in 1..Len(rmLog[a]) : rmLog[a][i] = (IF i <= rlRate THEN 200 ELSE 429)

\* rate 3: five requests from one remote address at the same instant
C24_Witness ==
    /\ rlRate = 3
    /\ now = 0
    /\ \E a \in RemoteAddrs : rmLog[a] = <<200, 200, 200, 429, 429>>
    /\ rmStatus = 429 /\ rmRetryAfter = "60" /\ ~rmNextCalled

\* ------------------------------------------------------------------------
\* Claims about path matching and strip_prefix (checked under SpecPaths)
\* ------------------------------------------------------------------------

\* C25: a prefix rule /a matches the request paths /a and /a/x and does not
\* match /ax, on the router of the legacy tables (Router.Match) and on the
\* compiled index (RouterIndex.Match with CompiledMatch.Matches) alike.
C25_PrefixMatchesOnSegmentBoundary ==
    (psPrefix = PathA /\ psLegacy # Nil /\ psCompiled # Nil) =>
        /\ psPath \in {PathA, PathASlashX} => (psLegacy.matched /\ psCompiled.matched)
        /\ psPath = PathAX => (~psLegacy.matched /\ ~psCompiled.matched)

\* C29: for every prefix P and every request path that starts with P, the
\* path strip_prefix{P} leaves, with P put back in front, is the original path.
C29_StripThenPrependRestores ==
    (psStripped # Nil /\ HasPrefix(psPath, psPrefix)) =>
        psPrefix \o psStripped.Path = psPath

\* C29 (amended): the round trip restores the original path when the path
\* continues with a separator right after P; in every other case of a path
\* starting with P the filter puts a separator in front of the remainder, so
\* that the path it leaves is never empty and always starts with a separator.
C29_StripThenPrependRestoresAtSeparator ==
    (psStripped # Nil /\ HasPrefix(psPath, psPrefix)) =>
        IF HasPrefix(psPath, psPrefix \o <<"/">>)
        THEN psPrefix \o psStripped.Path = psPath
        ELSE psPrefix \o psStripped.Path =
                 psPrefix \o <<"/">> \o SubSeq(psPath, Len(psPrefix) + 1, Len(psPath))

\* /a/x under strip_prefix{/a} becomes /x
C29_Witness ==
    /\ psPrefix = PathA
    /\ psPath = PathASlashX
    /\ psStripped # Nil
    /\ psStripped.Path = PathX

\* ------------------------------------------------------------------------
\* Claims about endpoint selection (checked under SpecSelect)
\* ------------------------------------------------------------------------

\* the positions start..start+len-1 of the log, all of them returned
ReturnedWindow(start, len) ==
    /\ start + len - 1 <= Len(seLog)
    /\ \A i \in start..(start + len - 1) : seLog[i] # NoEndpoint

\* C26: with no reload, the selections on a cluster of n endpoints, taken in
\* the order of their counter values, go through the endpoints in order
\* (the i-th selection returns the endpoint at (i - 1) mod n), and every n*k
\* consecutive selections return each endpoint exactly k times, whichever
\* way the concurrent requests interleave.
C26_RoundRobinCycles ==
    LET n == Len(seEndpoints)
    IN  n > 0 =>
          /\ \A i \in 1..Len(seLog) :
                seLog[i] # NoEndpoint => seLog[i] = seEndpoints[((i - 1) % n) + 1]
          /\ \A start \in 1..Len(seLog), k \in 1..MaxSelections :
                ReturnedWindow(start, n * k) =>
                    \A e \in Range(seEndpoints) :
                        Cardinality({i \in start..(start + n * k - 1) : seLog[i] = e}) = k

\* three endpoints, six selections: each endpoint twice, the last two
\* selections made by two requests in flight at the same time
C26_Witness ==
    /\ Len(seEndpoints) = 3
    /\ seLog = <<Endpoint(1), Endpoint(2), Endpoint(3),
                 Endpoint(1), NoEndpoint, Endpoint(3)>>
    /\ sePc["s1"] = "added" /\ seIdx["s1"] = 4
    /\ sePc["s2"] = "done" /\ seIdx["s2"] = 5 /\ seEp["s2"] = Endpoint(3)

\* C27: a selection never returns an endpoint whose health flag says
\* unhealthy, and a selection on a cluster none of whose endpoints is
\* healthy returns without an endpoint (ok = false).
C27_OnlyHealthySelected ==
    [][ \A p \in Selectors :
          /\ SelectReturn(p) => seHealthy[seEp'[p]]
          /\ ((\A e \in DOMAIN seHealthy : ~seHealthy[e]) /\ SelectAdd(p)) =>
                (sePc'[p] = "done" /\ ~seOk'[p])
      ]_vars

\* C28: a request whose cluster has no endpoint to select is answered 503.
C28_NoEndpointGives503 ==
    \A p \in Selectors :
        (sePc[p] = "done" /\ Len(seEndpoints) = 0) => seStatus[p] = 503

\* ------------------------------------------------------------------------
\* Claims about readiness (checked under SpecReady)
\* ------------------------------------------------------------------------

SnapshotInstalled == rdMain # "load"
StartupComplete == rdGo \in {"ready", "listening"}
ShutdownBegun == rdMain \in {"shutdown", "tlswait", "tlsdown", "srvwait", "stopped"}

\* C30: GET /readyz answers 200 ready only after the initial snapshot is
\* installed and before shutdown begins; as long as startup is not complete
\* and from the moment shutdown begins it answers 503 not ready.
C30_ReadyOnlyBetweenStartAndShutdown ==
    [][ \A s \in Servers : Readyz(s) =>
          /\ rdStatus'[s] = 200 => (SnapshotInstalled /\ ~ShutdownBegun)
          /\ (~StartupComplete \/ ShutdownBegun) =>
                (rdStatus'[s] = 503 /\ rdBody'[s] = "not ready")
      ]_vars

\* ------------------------------------------------------------------------
\* Claims about graceful shutdown (checked under SpecShutdown)
\* ------------------------------------------------------------------------

NoServerAccepts == \A s \in Servers : rdListen[s] # "serving"

C32_PluginsRunInOrderUntilError ==
    [][ /\ (plCalling /\ plIndex < Len(plPlugins) /\ Run) =>
              /\ \A q \in Range(plPlugins) :
                    q.order < plPlugins[plIndex + 1].order => q.id \in plCalledNext
              /\ plStopped = {}
        /\ (plStopped # {} /\ ExecuteReturns) => plChainErr \in plStopped
      ]_vars

\* ------------------------------------------------------------------------
\* Claims about the limiter after a denial (checked under SpecRL)
\* ------------------------------------------------------------------------

\* the window the limiter holds for a key that has one
WindowOf(k) == shards[getShard(k)][k]

\* C33: when the last call of a key was denied, the key's next call, made
\* once the window duration has elapsed since the start of the key's
\* current window, is admitted.
C33_AdmittedAfterWindow ==
    [][ \A k \in Keys :
          (afterDenial[k] = "denied" /\ now - WindowOf(k).currStart >= rlWindow
             /\ RLAllow(k)) => rlResult'
      ]_vars

\* C33 (amended): the next call is admitted when two window durations have
\* elapsed since the start of the key's current window; between one and two
\* window durations the window rolls with the old count as the previous
\* window's at full weight, and the call is admitted exactly when that count
\* is below the rate.
C33_AdmittedAfterTwoWindows ==
    [][ \A k \in Keys :
          (afterDenial[k] = "denied" /\ now - WindowOf(k).currStart >= rlWindow
             /\ RLAllow(k)) =>
              IF now - WindowOf(k).currStart >= 2 * rlWindow
              THEN rlResult'
              ELSE rlResult' = (WindowOf(k).count < rlRate)
      ]_vars

\* a key denied in its first window and admitted two windows later
C33_Witness ==
    /\ rlCalls > 0
    /\ afterDenial[rlKey] = "admittedAfterDenial"
    /\ rlResult
    /\ WindowOf(rlKey) = [count |-> 1, prevCount |-> 0, currStart |-> now]
    /\ now >= 2 * rlWindow

\* ------------------------------------------------------------------------
\* C34: a failure recorded while the breaker is Open
\* ------------------------------------------------------------------------
\* C34: a RecordFailure that arrives while the breaker is already Open does
\* not postpone the probe: once open_timeout has passed since the failure that
\* opened the breaker, Allow admits a request.
C34_LateFailureDoesNotPostponeProbe ==
    [][ (cbState = StateOpen /\ now - openedAt >= cbTimeout /\ Allow) => cbAdmit' ]_vars

\* ------------------------------------------------------------------------
\* C35-C40: the admin API, the watcher and the version history
\* ------------------------------------------------------------------------
\* no callback of the watcher and no admin request is in progress
Quiescent ==
    /\ adWatcher.pc = "idle"
    /\ \A h \in AdminClients : adHandlers[h].pc = "idle"

\* the routes GET /api/v1/routes lists
RouteList == adHeap[adCurrent].Routes

\* the *Config objects the version history points to
Recorded == {vmVersions[i].Config : i \in 1..Len(vmVersions)}

\* entry i of the history was appended by Save: its Config is a new one
IsSave(i) == \A j \in 1..(i - 1) : vmVersions[j].Config # vmVersions[i].Config

\* entry i of the history was appended by Rollback
IsRollback(i) == ~IsSave(i)

\* C35: when a reload triggered by the file and a rollback of the admin API
\* have run to completion, in whatever interleaving, the route table and the
\* upstream registry come from the same configuration.
C35_TablesFromOneConfiguration ==
    (Quiescent /\ adAcked = {}
       /\ Cardinality({i \in 1..Len(vmVersions) : IsRollback(i)}) <= 1)
        => adRoutesFrom = adUpstreamsFrom

AckedOf(op, name) == {a \in adAcked : a.op = op /\ a.name = name}

\* C36: when concurrent publishes, updates and deletes of routes have all
\* been answered, every one answered with success has its effect in the
\* route list: a published route that nobody deleted is listed, a deleted
\* route that nobody published again is not, and a route updated by one
\* request only is listed as that request gave it.
C36_AcknowledgedChangesTakeEffect ==
    (Quiescent /\ Len(adHeap) = 1 /\ adCurrent = 1) =>
        \A a \in adAcked :
            /\ (a.op = "publishRoute" /\ AckedOf("deleteRoute", a.name) = {})
                  => a.name \in RouteNamesOf(RouteList)
            /\ (a.op = "deleteRoute" /\ AckedOf("publishRoute", a.name) = {})
                  => a.name \notin RouteNamesOf(RouteList)
            /\ (a.op = "updateRoute" /\ {b \in adAcked : b.name = a.name} = {a})
                  => a.route \in Range(RouteList)

\* C37: the route list never holds two routes with the same name, also when
\* publishes race.
C37_RouteNamesUnique ==
    adCurrent # NilConfig => NoDuplicateNames(RouteList)

\* C38: a configuration recorded in the version history is not altered by a
\* later publish, update or delete of the admin API.
C38_RecordedConfigurationsKept ==
    [][ \A p \in Recorded : adHeap'[p] = adHeap[p] ]_vars

\* C39: after a rollback of the admin API has succeeded, GET /api/v1/config
\* reports the configuration that was rolled back to.
C39_ReadsReportRolledBack ==
    [][ \A h \in AdminClients :
          (Quiescent /\ Len(vmVersions) >= 2 /\ IsRollback(Len(vmVersions)) /\ getConfig(h))
              => adHandlers'[h].body = adHeap[Latest(vmVersions).Config]
      ]_vars

\* C40: after V1, V2 and V3 were saved, two rollbacks in a row leave the
\* configuration of V1 current.
C40_TwoRollbacksReachV1 ==
    (Quiescent /\ Len(vmVersions) = 5
       /\ IsSave(1) /\ IsSave(2) /\ IsSave(3) /\ IsRollback(4) /\ IsRollback(5))
        => adHeap[Latest(vmVersions).Config] = adHeap[vmVersions[1].Config]

====
